---- MODULE Spec2Model ----
(***************************************************************************)
(* Model of rctmon: the DeviceManager (managed-frame table, scheduler      *)
(* `payloads`, dispatcher `on_frame`, handlers, `add_ids`) and the Daemon   *)
(* main loop (`run`) that drives it over a TCP socket, with the InfluxDB    *)
(* and MQTT sinks.                                                          *)
(*                                                                          *)
(* Time is the wall clock read by datetime.utcnow(), in whole seconds.      *)
(* datetime.min ("never") is the value Never, which compares below every    *)
(* clock value.  The object registry is restricted to the ids of IDS; a     *)
(* request payload (make_frame(Command.READ, oid)) is represented by the    *)
(* object id it requests.                                                   *)
(***************************************************************************)
EXTENDS Integers, Sequences, FiniteSets, TLC

\* ------------------------------------------------------------------ bounds
\* the clock stops advancing at MaxTime
MaxTime == 40
\* number of response frames the device sends in one run
MaxFrames == 4
\* frames handed to on_frame under HandlerSpec
MaxCalls == 5
\* frames the device sends under DecodeSpec
MaxWireFrames == 2
\* calls of the InfluxDB wrapper under SinkSpec
MaxSinkCalls == 8
\* calls of clear_inventory
MaxClears == 2
\* frames handed to on_frame under ScrapeSpec
MaxScrapeCalls == 3
\* scrapes in one run under ScrapeSpec
MaxScrapes == 1
\* how far the clock can advance between two calls of the scheduler
Steps == {5, 30}
\* number of iterations of the main loop in one run
MaxIters == 5
\* how far the clock can advance during one iteration of the main loop
LoopSteps == {1, 60, 180}
\* number of response frames the device sends in one run of the main loop
MaxLoopFrames == 1
\* number of socket failures and stalls in one run of the main loop
MaxFaults == 1
\* number of times the clock advances by more than a second in one run
MaxJumps == 1

\* ------------------------------------------------------- program constants
InventoryResendSeconds == 30
LossFactor == 3
ReconnectSeconds == 60
IdleSeconds == 180
PollSeconds == 1
InfluxSeconds == 5
MqttFlushSeconds == 30

\* datetime.min
Never == -1

\* t < now - timedelta(seconds=d), with datetime.min below everything
Older(t, tnow, d) == t = Never \/ t < tnow - d
\* t <= now - timedelta(seconds=d)
OlderEq(t, tnow, d) == t = Never \/ t <= tnow - d

\* ------------------------------------------------------- registry (subset)
DESC == "android_description"
RB_AVAIL == "rb485.available"
RB_VMAIN == "rb485.version_main"
RB_UGRID0 == "rb485.u_l_grid[0]"
TEMP1 == "db.temp1"
INV_SN == "inverter_sn"
SVN == "svnversion"
PARAM == "parameter_file"
GEN_A == "dc_conv.dc_conv_struct[0].enabled"
GEN_B == "dc_conv.dc_conv_struct[1].enabled"
GEN_A_U == "g_sync.u_sg_avg[0]"
GRID_PWR == "g_sync.p_ac_grid_sum_lp"
E_AC_TOTAL == "energy.e_ac_total"
BAT_TYPE == "power_mng.battery_type"
BMS_SN == "battery.bms_sn"
BAT_SOC == "battery.soc"

\* the battery modules of the model (the code knows 0..6)
Modules == {0, 1, 2}

\* battery.module_sn[k]
ModuleSn(k) ==
    CASE k = 0 -> "battery.module_sn[0]"
      [] k = 1 -> "battery.module_sn[1]"
      [] OTHER -> "battery.module_sn[2]"

\* battery.stack_cycles[k]
StackCycles(k) ==
    CASE k = 0 -> "battery.stack_cycles[0]"
      [] k = 1 -> "battery.stack_cycles[1]"
      [] OTHER -> "battery.stack_cycles[2]"

\* BAT_IDS_MODULE_SN and BAT_IDS_CYCLES: object id -> module number
BAT_IDS_MODULE_SN == [i \in {ModuleSn(k) : k \in Modules} |->
                        CHOOSE k \in Modules : ModuleSn(k) = i]
BAT_IDS_CYCLES == [i \in {StackCycles(k) : k \in Modules} |->
                     CHOOSE k \in Modules : StackCycles(k) = i]

\* the objects whose responses reach the program under Spec and SchedSpec
WireIds == {DESC, RB_AVAIL, RB_VMAIN, RB_UGRID0, TEMP1}

IDS == WireIds
       \cup {INV_SN, SVN, PARAM, GEN_A, GEN_B, GEN_A_U, GRID_PWR, E_AC_TOTAL, BAT_TYPE,
             BMS_SN, BAT_SOC}
       \cup DOMAIN BAT_IDS_MODULE_SN \cup DOMAIN BAT_IDS_CYCLES

\* response_data_type of the registry entry
RegType(id) ==
    CASE id \in {DESC, INV_SN, SVN, PARAM, BMS_SN} \cup DOMAIN BAT_IDS_MODULE_SN -> "str"
      [] id \in {RB_AVAIL, GEN_A, GEN_B} -> "bool"
      [] id \in {RB_VMAIN, BAT_TYPE} \cup DOMAIN BAT_IDS_CYCLES -> "int"
      [] OTHER -> "float"

\* ------------------------------------------------------------------ values
\* a decoded value: its Python type, a number (bool as 0/1) and a string
NoneV == [t |-> "none", n |-> 0, s |-> <<>>]
BoolV(b) == [t |-> "bool", n |-> IF b THEN 1 ELSE 0, s |-> <<>>]
IntV(k) == [t |-> "int", n |-> k, s |-> <<>>]
FloatV(k) == [t |-> "float", n |-> k, s |-> <<>>]
StrV(str) == [t |-> "str", n |-> 0, s |-> str]

\* the strings the device reports as its description
DescStrings == { <<>>, <<" ", "R", " ">> }

\* the values decode_value can produce for an id
ValuesOf(id) ==
    CASE RegType(id) = "str" -> {StrV(str) : str \in DescStrings}
      [] RegType(id) = "bool" -> {BoolV(TRUE), BoolV(FALSE)}
      [] RegType(id) = "int" -> {IntV(1)}
      [] OTHER -> {FloatV(1)}

\* isinstance(value, typ); bool is a subclass of int
IsInstance(v, typ) == v.t = typ \/ (typ = "int" /\ v.t = "bool")

RECURSIVE LStrip(_)
LStrip(str) == IF str # <<>> /\ Head(str) = " " THEN LStrip(Tail(str)) ELSE str

RECURSIVE RStrip(_)
RStrip(str) ==
    IF str # <<>> /\ str[Len(str)] = " " THEN RStrip(SubSeq(str, 1, Len(str) - 1)) ELSE str

\* str.strip()
Strip(str) == RStrip(LStrip(str))

UNKNOWN == <<"U", "N", "K", "N", "O", "W", "N">>

\* ----------------------------------------------------------- ManagedFrame
\* ManagedFrame whose last_transmit starts at the epoch, not at datetime.min
ManagedFrame_FromEpoch(interval, is_inventory) ==
    [interval |-> interval, last_transmit |-> 0, last_arrival |-> Never,
     in_flight |-> FALSE, is_inventory |-> is_inventory]

ManagedFrame(interval, is_inventory) ==
    [interval |-> interval, last_transmit |-> Never, last_arrival |-> Never,
     in_flight |-> FALSE, is_inventory |-> is_inventory]

\* Readings(): every leaf at the default of its dataclass field (None, and
\* False for power_switch_available); the leaves of the sub-objects are
\* named by their path
EmptyReadings ==
    [power_switch_available |-> BoolV(FALSE), ps_software_version |-> NoneV,
     ps_grid_voltage_l1 |-> NoneV, temperature_heatsink |-> NoneV,
     serial_number |-> NoneV, control_software_version |-> NoneV, parameter_file |-> NoneV,
     have_generator_a |-> NoneV, have_generator_b |-> NoneV,
     solar_generator_a_voltage |-> NoneV, grid_power_total |-> NoneV,
     energy_ac_sum |-> NoneV]

\* BatteryInfo(num, serial)
BatteryInfo(num, serial) == [num |-> num, serial |-> serial, cycle_count |-> NoneV]

\* BatteryManager.__init__
NewBatteryManager ==
    [have_battery |-> NoneV, num_batteries |-> NoneV, batteries |-> <<>>,
     readings |-> [bms_sn |-> NoneV, soc |-> NoneV]]


\* handlers (bound methods registered as callbacks)
H_DESC == "_cb_android_description"
H_INV == "_cb_inventory"
H_PSW == "_cb_power_switch"
H_SENS == "_cb_sensors"
H_GEN == "_cb_solar_generator"
H_GRID == "_cb_grid"
H_ENERGY == "_cb_energy"
H_BTYPE == "battery_manager.cb_battery_type"
H_BMS == "battery_manager._cb_inventory"
H_MODSN == "battery_manager._cb_battery_module_sn"
H_CYC == "battery_manager._cb_battery_cycles"
H_READ == "battery_manager._cb_readings"
H_NONE == "None"

\* ---------------------------------------------------------- DeviceManager
\* The state of a DeviceManager is a record S with the fields
\*   frames        _frames: object id -> ManagedFrame
\*   keys          insertion order of the keys of _frames (dict order)
\*   inventory_ids _inventory_ids
\*   callbacks     _callbacks: object id -> handler
\*   name, have_name, readings
\*   battery_manager  the BatteryManager: have_battery, num_batteries,
\*                 batteries (module number -> BatteryInfo), readings
\*   enr           history: how often each id has been enrolled by add_ids

\* AddId without the registration of the handler
AddId_NoHandler(S, id, interval, inventory, is_inventory, handler) ==
    IF id \notin IDS
    THEN S
    ELSE [S EXCEPT
            !.frames = (id :> ManagedFrame(interval, is_inventory)) @@ S.frames,
            !.keys = IF id \in DOMAIN S.frames THEN S.keys ELSE Append(S.keys, id),
            !.inventory_ids = IF inventory THEN Append(S.inventory_ids, id) ELSE S.inventory_ids,
            !.enr = [S.enr EXCEPT ![id] = @ + 1]]

\* add_ids with a single name
AddId(S, id, interval, inventory, is_inventory, handler) ==
    IF id \notin IDS
    THEN S
    ELSE [S EXCEPT
            !.frames = (id :> ManagedFrame(interval, is_inventory)) @@ S.frames,
            !.keys = IF id \in DOMAIN S.frames THEN S.keys ELSE Append(S.keys, id),
            !.inventory_ids = IF inventory THEN Append(S.inventory_ids, id) ELSE S.inventory_ids,
            !.callbacks = IF handler # H_NONE THEN (id :> handler) @@ S.callbacks ELSE S.callbacks,
            !.enr = [S.enr EXCEPT ![id] = @ + 1]]

\* add_ids with a list of names
RECURSIVE AddIds(_, _, _, _, _, _)
AddIds(S, ids, interval, inventory, is_inventory, handler) ==
    IF ids = <<>>
    THEN S
    ELSE AddIds(AddId(S, Head(ids), interval, inventory, is_inventory, handler),
                Tail(ids), interval, inventory, is_inventory, handler)

\* SetName that keeps an empty name
SetName_KeepsEmpty(S, value) ==
    [S EXCEPT !.name = StrV(Strip(value.s)), !.have_name = TRUE]

SetName(S, value) ==
    LET n_name == Strip(value.s) IN
    [S EXCEPT !.name = IF n_name = <<>> THEN StrV(UNKNOWN) ELSE StrV(n_name),
              !.have_name = TRUE]

CbAndroidDescription(S, oid, value) ==
    IF ~IsInstance(value, "str")
    THEN S
    ELSE IF S.have_name
    THEN IF S.name # value THEN SetName(S, value) ELSE S
    ELSE LET S1 == AddIds(SetName(S, value), <<INV_SN, SVN, PARAM, GEN_A, GEN_B, RB_AVAIL>>,
                          0, FALSE, TRUE, H_INV)
             S2 == AddIds(S1, <<BAT_TYPE>>, 0, FALSE, TRUE, H_BTYPE)
             S3 == AddIds(S2, <<GRID_PWR>>, 10, FALSE, FALSE, H_GRID)
             S4 == AddIds(S3, <<TEMP1>>, 60, FALSE, FALSE, H_SENS)
         IN  AddIds(S4, <<E_AC_TOTAL>>, 300, FALSE, FALSE, H_ENERGY)

CbInventory(S, oid, value) ==
    CASE oid = RB_AVAIL ->
            IF ~IsInstance(value, "bool") THEN S
            ELSE LET S1 == [S EXCEPT !.readings.power_switch_available = BoolV(value.n = 1)]
                 IN  IF value.n = 1
                     THEN AddIds(AddIds(S1, <<RB_VMAIN>>, 0, TRUE, TRUE, H_INV),
                                 <<RB_UGRID0>>, 10, TRUE, FALSE, H_PSW)
                     ELSE S1
      [] oid = INV_SN ->
            IF ~IsInstance(value, "str") THEN S
            ELSE [S EXCEPT !.readings.serial_number = value]
      [] oid = SVN ->
            IF ~IsInstance(value, "str") THEN S
            ELSE [S EXCEPT !.readings.control_software_version = value]
      [] oid = PARAM ->
            IF ~IsInstance(value, "str") THEN S
            ELSE [S EXCEPT !.readings.parameter_file = value]
      [] oid = RB_VMAIN ->
            IF ~IsInstance(value, "int") THEN S
            ELSE [S EXCEPT !.readings.ps_software_version = value]
      [] oid = GEN_A ->
            IF ~IsInstance(value, "bool") THEN S
            ELSE LET S1 == [S EXCEPT !.readings.have_generator_a = BoolV(value.n = 1)]
                 IN  IF value.n = 1
                     THEN AddIds(S1, <<GEN_A_U>>, 10, TRUE, FALSE, H_GEN)
                     ELSE S1
      [] oid = GEN_B ->
            IF ~IsInstance(value, "bool") THEN S
            ELSE [S EXCEPT !.readings.have_generator_b = BoolV(value.n = 1)]
      [] OTHER -> S

CbPowerSwitch(S, oid, value) ==
    IF oid = RB_UGRID0 /\ IsInstance(value, "float")
    THEN [S EXCEPT !.readings.ps_grid_voltage_l1 = value]
    ELSE S

CbSensors(S, oid, value) ==
    IF oid = TEMP1 /\ IsInstance(value, "float")
    THEN [S EXCEPT !.readings.temperature_heatsink = value]
    ELSE S

CbSolarGenerator(S, oid, value) ==
    IF oid = GEN_A_U /\ IsInstance(value, "float")
    THEN [S EXCEPT !.readings.solar_generator_a_voltage = value]
    ELSE S

CbGrid(S, oid, value) ==
    IF oid = GRID_PWR /\ IsInstance(value, "float")
    THEN [S EXCEPT !.readings.grid_power_total = value]
    ELSE S

CbEnergy(S, oid, value) ==
    IF oid = E_AC_TOTAL /\ IsInstance(value, "float")
    THEN [S EXCEPT !.readings.energy_ac_sum = value]
    ELSE S

\* value > 0 raises TypeError for a str and for None
CbBatteryTypeRaises(oid, value) == oid # BAT_TYPE \/ value.t \in {"str", "none"}

\* BatteryManager.cb_battery_type
CbBatteryType(S, oid, value) ==
    IF CbBatteryTypeRaises(oid, value)
    THEN S
    ELSE IF value.n > 0
    THEN LET S1 == [S EXCEPT !.battery_manager.have_battery = BoolV(TRUE)]
             S2 == AddId(S1, BMS_SN, 0, TRUE, TRUE, H_BMS)
             S3 == AddIds(S2, <<ModuleSn(0), ModuleSn(1), ModuleSn(2)>>, 0, TRUE, TRUE, H_MODSN)
         IN  AddIds(S3, <<BAT_SOC>>, 60, TRUE, FALSE, H_READ)
    ELSE [S EXCEPT !.battery_manager.have_battery = BoolV(FALSE)]

\* ensure_type(value, str) is not inside a try statement
BatCbInventoryRaises(oid, value) == oid = BMS_SN /\ ~IsInstance(value, "str")

\* BatteryManager._cb_inventory
BatCbInventory(S, oid, value) ==
    IF oid = BMS_SN /\ IsInstance(value, "str")
    THEN [S EXCEPT !.battery_manager.readings.bms_sn = value]
    ELSE S

\* CbBatteryModuleSn that registers a module for an empty serial as well
CbBatteryModuleSn_EmptyToo(S, oid, value) ==
    IF oid \notin DOMAIN BAT_IDS_MODULE_SN
    THEN S
    ELSE LET bat_id == BAT_IDS_MODULE_SN[oid]
             S1 == [S EXCEPT !.battery_manager.batteries =
                                 (bat_id :> BatteryInfo(bat_id, value)) @@ @]
         IN  AddIds(S1, <<StackCycles(bat_id)>>, 300, TRUE, FALSE, H_CYC)

\* BatteryManager._cb_battery_module_sn
CbBatteryModuleSn(S, oid, value) ==
    IF oid \notin DOMAIN BAT_IDS_MODULE_SN \/ value = StrV(<<>>)
    THEN S
    ELSE LET bat_id == BAT_IDS_MODULE_SN[oid]
             S1 == [S EXCEPT !.battery_manager.batteries =
                                 (bat_id :> BatteryInfo(bat_id, value)) @@ @]
         IN  AddIds(S1, <<StackCycles(bat_id)>>, 300, TRUE, FALSE, H_CYC)

\* CbBatteryCycles that adds the value to the stored cycle count
CbBatteryCycles_Accumulates(S, oid, value) ==
    IF oid \notin DOMAIN BAT_IDS_CYCLES
    THEN S
    ELSE LET bat_id == BAT_IDS_CYCLES[oid] IN
         IF bat_id \in DOMAIN S.battery_manager.batteries /\ IsInstance(value, "int")
         THEN [S EXCEPT !.battery_manager.batteries[bat_id].cycle_count =
                           IF @ = NoneV THEN value ELSE IntV(@.n + value.n)]
         ELSE S

\* BatteryManager._cb_battery_cycles
CbBatteryCycles(S, oid, value) ==
    IF oid \notin DOMAIN BAT_IDS_CYCLES
    THEN S
    ELSE LET bat_id == BAT_IDS_CYCLES[oid] IN
         IF bat_id \in DOMAIN S.battery_manager.batteries /\ IsInstance(value, "int")
         THEN [S EXCEPT !.battery_manager.batteries[bat_id].cycle_count = value]
         ELSE S

\* BatteryManager._cb_readings
CbReadings(S, oid, value) ==
    IF oid = BAT_SOC /\ IsInstance(value, "float")
    THEN [S EXCEPT !.battery_manager.readings.soc = value]
    ELSE S

\* self._callbacks[frame.id](frame.id, value)
CallHandler(h, S, oid, value) ==
    CASE h = H_DESC -> CbAndroidDescription(S, oid, value)
      [] h = H_INV -> CbInventory(S, oid, value)
      [] h = H_PSW -> CbPowerSwitch(S, oid, value)
      [] h = H_SENS -> CbSensors(S, oid, value)
      [] h = H_GEN -> CbSolarGenerator(S, oid, value)
      [] h = H_GRID -> CbGrid(S, oid, value)
      [] h = H_ENERGY -> CbEnergy(S, oid, value)
      [] h = H_BTYPE -> CbBatteryType(S, oid, value)
      [] h = H_BMS -> BatCbInventory(S, oid, value)
      [] h = H_MODSN -> CbBatteryModuleSn(S, oid, value)
      [] h = H_CYC -> CbBatteryCycles(S, oid, value)
      [] h = H_READ -> CbReadings(S, oid, value)
      [] OTHER -> S

\* the handler leaves with an exception: name.strip() of a value that is
\* not a str, and the two battery handlers above
HandlerRaises(h, oid, value) ==
    CASE h = H_DESC -> ~IsInstance(value, "str")
      [] h = H_BTYPE -> CbBatteryTypeRaises(oid, value)
      [] h = H_BMS -> BatCbInventoryRaises(oid, value)
      [] OTHER -> FALSE

\* DeviceManager.__init__
NewDeviceManager ==
    AddId([frames |-> <<>>, keys |-> <<>>, inventory_ids |-> <<>>, callbacks |-> <<>>,
           name |-> NoneV, have_name |-> FALSE, readings |-> EmptyReadings,
           battery_manager |-> NewBatteryManager,
           enr |-> [i \in IDS |-> 0]],
          DESC, 0, FALSE, TRUE, H_DESC)

\* the loop of clear_inventory: del self._frames[i_id] for the ids of
\* _inventory_ids in their order; a KeyError ends it
RECURSIVE DelFrames(_, _)
DelFrames(S, ids) ==
    IF ids = <<>>
    THEN [dm |-> S, raised |-> FALSE]
    ELSE IF Head(ids) \notin DOMAIN S.frames
    THEN [dm |-> S, raised |-> TRUE]
    ELSE DelFrames([S EXCEPT !.frames = [i \in DOMAIN @ \ {Head(ids)} |-> @[i]],
                              !.keys = SelectSeq(@, LAMBDA k : k # Head(ids))],
                   Tail(ids))

\* clear_inventory: after the loop self.battery_manager.clear_inventory()
\* is called, a method BatteryManager does not have, so that the
\* assignments behind the call are never reached
ClearInventory(S) == [DelFrames(S, S.inventory_ids) EXCEPT !.raised = TRUE]

\* MarkArrival that clears in_flight and leaves last_arrival alone
MarkArrival_NoStamp(S, oid, tnow) ==
    IF oid \in DOMAIN S.frames
    THEN [S EXCEPT !.frames[oid].in_flight = FALSE]
    ELSE S

\* mark_arrival
MarkArrival(S, oid, tnow) ==
    IF oid \in DOMAIN S.frames
    THEN [S EXCEPT !.frames[oid].last_arrival = tnow, !.frames[oid].in_flight = FALSE]
    ELSE S


\* ------------------------------------------------- scheduler (payloads)
\* ManagedFrame.__lt__
FrameLt(f, g) == f.last_transmit < g.last_transmit

\* insert id k into the sorted sequence srt, after every element that is
\* not greater (sorted() is stable)
RECURSIVE InsertSorted(_, _, _)
InsertSorted(F, srt, k) ==
    IF srt = <<>> THEN <<k>>
    ELSE IF FrameLt(F[k], F[Head(srt)]) THEN <<k>> \o srt
    ELSE <<Head(srt)>> \o InsertSorted(F, Tail(srt), k)

\* sorted(self._frames.items(), key=lambda item: item[1])
RECURSIVE SortedKeys(_, _)
SortedKeys(F, ks) ==
    IF ks = <<>> THEN <<>>
    ELSE InsertSorted(F, SortedKeys(F, SubSeq(ks, 1, Len(ks) - 1)), ks[Len(ks)])

\* a non-inventory frame in flight for three times its interval is reset
LossReset(f, tnow) ==
    /\ ~f.is_inventory
    /\ f.in_flight
    /\ OlderEq(f.last_transmit, tnow, LossFactor * f.interval)

\* a non-inventory frame is staged (evaluated after the reset above)
NormalDue(f, tnow) ==
    /\ ~f.is_inventory
    /\ OlderEq(f.last_transmit, tnow, f.interval)
    /\ ~(f.in_flight /\ ~LossReset(f, tnow))

\* InventoryDue with the re-send already at 30 s, not after
InventoryDue_AtThirty(f, tnow) ==
    /\ f.is_inventory
    /\ ~(f.last_arrival > Never)
    /\ f.last_arrival = Never
    /\ OlderEq(f.last_transmit, tnow, InventoryResendSeconds)

\* InventoryDue without the wait before a re-send
InventoryDue_NoWait(f, tnow) ==
    /\ f.is_inventory
    /\ ~(f.last_arrival > Never)
    /\ f.last_arrival = Never

\* an inventory frame is staged
InventoryDue(f, tnow) ==
    /\ f.is_inventory
    /\ ~(f.last_arrival > Never)
    /\ f.last_arrival = Never
    /\ Older(f.last_transmit, tnow, InventoryResendSeconds)

\* an inventory frame is re-sent while in flight: counted as lost
InventoryLost(f, tnow) == InventoryDue(f, tnow) /\ f.in_flight

Staged(f, tnow) == NormalDue(f, tnow) \/ InventoryDue(f, tnow)

\* what the staging loop does to a frame: only last_transmit is set
SendFrame(f, tnow) == [f EXCEPT !.last_transmit = tnow]

\* Staging that sends at most five requests per call
Staging_Capped(S, tnow) ==
    LET st == SelectSeq(SortedKeys(S.frames, S.keys), LAMBDA k : Staged(S.frames[k], tnow))
    IN  SubSeq(st, 1, IF Len(st) > 5 THEN 5 ELSE Len(st))

\* the staging list, in the order of the walk
Staging(S, tnow) ==
    SelectSeq(SortedKeys(S.frames, S.keys), LAMBDA k : Staged(S.frames[k], tnow))

Range(sq) == {sq[k] : k \in 1..Len(sq)}

\* the frames after payloads()
PayloadsFrames(S, tnow) ==
    [k \in DOMAIN S.frames |->
        LET f == S.frames[k]
            f1 == IF LossReset(f, tnow) THEN [f EXCEPT !.in_flight = FALSE] ELSE f
        IN  IF Staged(f, tnow) THEN SendFrame(f1, tnow) ELSE f1]

\* the counters after payloads()
PayloadsMon(S, M, tnow) ==
    [M EXCEPT
        !.lost_normal = @ + Cardinality({k \in DOMAIN S.frames : LossReset(S.frames[k], tnow)}),
        !.lost_inventory = @ + Cardinality({k \in DOMAIN S.frames : InventoryLost(S.frames[k], tnow)}),
        !.frames_sent = @ + Cardinality({k \in DOMAIN S.frames : Staged(S.frames[k], tnow)})]


\* ---------------------------------------------------------------- InfluxDB
\* The state of the InfluxDB wrapper is a record I with the fields
\*   has_client     whether the attribute _client has been assigned
\*   buffer         number of points in _buffer
\*   points_written _points_written

\* InfluxDB.__init__
NewInflux(enable) == [has_client |-> enable, buffer |-> 0, points_written |-> 0]

\* add_points evaluates self._client: AttributeError when never assigned
AddPointsRaises(I) == ~I.has_client

\* add_points with one point
AddPoints(I) == [I EXCEPT !.buffer = @ + 1]

\* flush evaluates self._client: AttributeError when never assigned
FlushRaises(I) == ~I.has_client

\* flush: write_ok is whether writer.write returned without raising
Flush(I, write_ok) ==
    IF I.buffer > 0
    THEN IF write_ok
         THEN [I EXCEPT !.points_written = @ + I.buffer, !.buffer = 0]
         ELSE [I EXCEPT !.points_written = @ + I.buffer]
    ELSE I

\* --------------------------------------------------------------- dispatcher
\* _influx_raw: the types that are pushed as raw data
InfluxRawType(value) == value.t \in {"float", "bool", "str", "int"}

\* OnFrame with the arrival marked before the value is decoded
OnFrame_MarksFirst(S, I, M, fr, tnow) ==
    IF fr.id \notin DOMAIN S.frames
    THEN [dm |-> S, influx |-> I, mon |-> M, raised |-> FALSE]
    ELSE LET S1 == MarkArrival(S, fr.id, tnow)
             raw == S1.have_name /\ InfluxRawType(fr.value)
         IN  IF fr.kind = "unpack"
             THEN [dm |-> S1, influx |-> I, mon |-> [M EXCEPT !.decode_payload = @ + 1],
                   raised |-> FALSE]
             ELSE IF raw /\ AddPointsRaises(I)
             THEN [dm |-> S1, influx |-> I, mon |-> M, raised |-> TRUE]
             ELSE [dm |-> IF fr.id \in DOMAIN S1.callbacks
                          THEN CallHandler(S1.callbacks[fr.id], S1, fr.id, fr.value)
                          ELSE S1,
                   influx |-> IF raw THEN AddPoints(I) ELSE I,
                   mon |-> M,
                   raised |-> /\ fr.id \in DOMAIN S1.callbacks
                              /\ HandlerRaises(S1.callbacks[fr.id], fr.id, fr.value)]

\* on_frame for a complete frame fr = [id, value, kind]; the result is the
\* DeviceManager, the InfluxDB wrapper, the counters, and whether an
\* exception (of the InfluxDB wrapper or of the handler) left on_frame
OnFrame(S, I, M, fr, tnow) ==
    IF fr.id \notin DOMAIN S.frames
    THEN [dm |-> S, influx |-> I, mon |-> M, raised |-> FALSE]
    ELSE IF fr.kind = "unpack"
    THEN [dm |-> S, influx |-> I, mon |-> [M EXCEPT !.decode_payload = @ + 1], raised |-> FALSE]
    ELSE LET S1 == MarkArrival(S, fr.id, tnow)
             raw == S1.have_name /\ InfluxRawType(fr.value)
         IN  IF raw /\ AddPointsRaises(I)
             THEN [dm |-> S1, influx |-> I, mon |-> M, raised |-> TRUE]
             ELSE [dm |-> IF fr.id \in DOMAIN S1.callbacks
                          THEN CallHandler(S1.callbacks[fr.id], S1, fr.id, fr.value)
                          ELSE S1,
                   influx |-> IF raw THEN AddPoints(I) ELSE I,
                   mon |-> M,
                   raised |-> /\ fr.id \in DOMAIN S1.callbacks
                              /\ HandlerRaises(S1.callbacks[fr.id], fr.id, fr.value)]

\* the leaf of the readings model that the response for an object sets
Leaf(S, id) ==
    CASE id = RB_AVAIL -> S.readings.power_switch_available
      [] id = RB_UGRID0 -> S.readings.ps_grid_voltage_l1
      [] id = TEMP1 -> S.readings.temperature_heatsink
      [] id = INV_SN -> S.readings.serial_number
      [] id = SVN -> S.readings.control_software_version
      [] id = PARAM -> S.readings.parameter_file
      [] id = GEN_A -> S.readings.have_generator_a
      [] id = GEN_B -> S.readings.have_generator_b
      [] id = GEN_A_U -> S.readings.solar_generator_a_voltage
      [] id = GRID_PWR -> S.readings.grid_power_total
      [] id = E_AC_TOTAL -> S.readings.energy_ac_sum
      [] id = BMS_SN -> S.battery_manager.readings.bms_sn
      [] id = BAT_SOC -> S.battery_manager.readings.soc
      [] id \in DOMAIN BAT_IDS_MODULE_SN ->
            IF BAT_IDS_MODULE_SN[id] \in DOMAIN S.battery_manager.batteries
            THEN S.battery_manager.batteries[BAT_IDS_MODULE_SN[id]].serial ELSE NoneV
      [] id \in DOMAIN BAT_IDS_CYCLES ->
            IF BAT_IDS_CYCLES[id] \in DOMAIN S.battery_manager.batteries
            THEN S.battery_manager.batteries[BAT_IDS_CYCLES[id]].cycle_count ELSE NoneV
      [] OTHER -> NoneV

\* the objects whose leaf the scrape exports by itself
ScrapeIds ==
    {RB_AVAIL, RB_UGRID0, TEMP1, INV_SN, SVN, PARAM, GEN_A, GEN_B, GEN_A_U, GRID_PWR,
     E_AC_TOTAL, BMS_SN, BAT_SOC} \cup DOMAIN BAT_IDS_MODULE_SN \cup DOMAIN BAT_IDS_CYCLES

\* a Python value is truthy
Truthy(v) == v # NoneV /\ (v.t = "str" => v.s # <<>>) /\ (v.t # "str" => v.n # 0)

\* BatteryManager.collect: the objects whose leaf gets a sample
BatteryCollect(S) ==
    {i \in {BMS_SN, BAT_SOC} : Leaf(S, i) # NoneV}
    \cup (IF Truthy(S.battery_manager.num_batteries) /\ S.battery_manager.num_batteries.n > 0
          THEN {i \in DOMAIN BAT_IDS_MODULE_SN \cup DOMAIN BAT_IDS_CYCLES : Leaf(S, i) # NoneV}
          ELSE {})

\* Readings.collect: GridReadings.collect does nothing for power_total
ReadingsCollect(S) ==
    (IF \A i \in {INV_SN, SVN, PARAM} : Leaf(S, i) # NoneV THEN {INV_SN, SVN, PARAM} ELSE {})
    \cup {i \in {GEN_A_U} : Truthy(S.readings.have_generator_a) /\ Leaf(S, i) # NoneV}
    \cup {i \in {TEMP1, E_AC_TOTAL} : Leaf(S, i) # NoneV}
    \cup {i \in {RB_UGRID0} : Truthy(S.readings.power_switch_available) /\ Leaf(S, i) # NoneV}

\* DeviceManager.collect: the objects whose leaf gets a sample in a scrape
Collect(S) ==
    IF ~Truthy(S.name)
    THEN {}
    ELSE {i \in {GEN_A, GEN_B, RB_AVAIL} : Leaf(S, i) # NoneV}
         \cup ReadingsCollect(S) \cup BatteryCollect(S)

\* ---------------------------------------------------------- scrape thread
\* DeviceManager.collect as the scrape thread runs it: one step is one read
\* of the readings model. op: the test of the name ("name"), a test for
\* None ("check"), a test for truth ("truthy") or the read that makes the
\* sample ("use"); skip: where collect goes on when the test fails
Ins(op, id, skip) == [op |-> op, id |-> id, skip |-> skip]

ScrapeProgram ==
    <<Ins("name", DESC, 30),
      Ins("check", GEN_A, 4), Ins("use", GEN_A, 0),
      Ins("check", GEN_B, 6), Ins("use", GEN_B, 0),
      Ins("check", RB_AVAIL, 8), Ins("use", RB_AVAIL, 0),
      Ins("check", INV_SN, 14), Ins("check", PARAM, 14), Ins("check", SVN, 14),
      Ins("use", INV_SN, 0), Ins("use", PARAM, 0), Ins("use", SVN, 0),
      Ins("truthy", GEN_A, 17), Ins("check", GEN_A_U, 17), Ins("use", GEN_A_U, 0),
      Ins("check", TEMP1, 19), Ins("use", TEMP1, 0),
      Ins("check", GRID_PWR, 20),
      Ins("check", E_AC_TOTAL, 22), Ins("use", E_AC_TOTAL, 0),
      Ins("truthy", RB_AVAIL, 25), Ins("check", RB_UGRID0, 25), Ins("use", RB_UGRID0, 0),
      Ins("check", BMS_SN, 27), Ins("use", BMS_SN, 0),
      Ins("check", BAT_SOC, 29), Ins("use", BAT_SOC, 0),
      Ins("truthy", BAT_TYPE, 30)>>

\* what the instruction at position k reads
ScrapeRead(S, k) ==
    LET ins == ScrapeProgram[k] IN
    IF ins.op = "name" THEN S.name
    ELSE IF ins.id = BAT_TYPE THEN S.battery_manager.num_batteries
    ELSE Leaf(S, ins.id)

\* the scrape thread after the instruction at its position
ScrapeAfter(S, T) ==
    LET ins == ScrapeProgram[T.pos]
        v == ScrapeRead(S, T.pos)
        pass == IF ins.op = "check" THEN v # NoneV ELSE Truthy(v)
    IN  IF ins.op = "use"
        THEN [T EXCEPT !.pos = @ + 1, !.out[ins.id] = v]
        ELSE [T EXCEPT !.pos = IF pass THEN @ + 1 ELSE ins.skip]

\* no scrape has run; stored: the values the handlers have stored in a
\* leaf, runs: the scrapes begun (both are not program state)
NoScrape ==
    [pos |-> 0, out |-> [i \in ScrapeIds |-> NoneV], stored |-> [i \in ScrapeIds |-> {}],
     runs |-> 0]

\* collect_influx: a temperature point is added when a temperature is known
CollectAdds(S) == S.name.s # <<>> /\ S.name # NoneV /\ S.readings.temperature_heatsink # NoneV


\* ------------------------------------------------------------ frame decoder
\* ReceiveFrame belongs to the protocol library and not to these sources;
\* it is modelled from the design's description of the decoder: its states,
\* what consume returns and its failure classes. A byte is a string that
\* names the role it plays in a well-formed frame; the decoder reads any
\* byte in the role its state expects.
START == "+"

\* the command a byte stands for
CommandOf(b) ==
    CASE b = "R" -> "RESPONSE"
      [] b = "L" -> "LONG_RESPONSE"
      [] b = "P" -> "PLANT_RESPONSE"
      [] b = "Q" -> "READ"
      [] OTHER -> "invalid"

\* Command.is_plant, Command.is_long
IsPlant(command) == command = "PLANT_RESPONSE"

IsLong(command) == command = "LONG_RESPONSE"

\* the length a byte declares: the id (one byte here) and the payload
LengthOf(b) ==
    CASE b = "n40" -> 40
      [] b = "n252" -> 252
      [] OTHER -> 2

\* self._current_frame = None
NoFrame ==
    [st |-> "None", command |-> "NONE", frame_length |-> 0, id |-> "", consumed_bytes |-> 0,
     left |-> 0]

\* ReceiveFrame()
NewReceiveFrame == [NoFrame EXCEPT !.st = "IDLE"]

\* the decoder absorbs one byte; exc: the failure class it raises
ConsumeByte(F, b) ==
    LET G == [F EXCEPT !.consumed_bytes = @ + 1] IN
    CASE F.st = "IDLE" ->
            [f |-> IF b = START THEN [G EXCEPT !.st = "READING_HEADER"] ELSE G, exc |-> "none"]
      [] F.st = "READING_HEADER" ->
            IF CommandOf(b) = "invalid"
            THEN [f |-> G, exc |-> "command"]
            ELSE [f |-> [G EXCEPT !.st = "READING_LENGTH", !.command = CommandOf(b)],
                  exc |-> "none"]
      [] F.st = "READING_LENGTH" ->
            [f |-> [G EXCEPT !.st = "READING_ID", !.frame_length = LengthOf(b)], exc |-> "none"]
      [] F.st = "READING_ID" ->
            [f |-> [G EXCEPT !.id = b, !.left = G.frame_length - 1,
                             !.st = IF G.frame_length > 1 THEN "READING_PAYLOAD"
                                    ELSE "READING_CRC"],
             exc |-> "none"]
      [] F.st = "READING_PAYLOAD" ->
            [f |-> [G EXCEPT !.left = @ - 1,
                             !.st = IF G.left = 1 THEN "READING_CRC" ELSE "READING_PAYLOAD"],
             exc |-> "none"]
      [] OTHER ->
            IF b = "ok"
            THEN [f |-> [G EXCEPT !.st = "COMPLETE"], exc |-> "none"]
            ELSE [f |-> G, exc |-> "crc"]

\* the element of a one-element set; an intermediate result is bound as
\* the element of such a set, so that it is computed once
Only(S) == CHOOSE x \in S : TRUE

\* consume(buf): bytes are absorbed until the frame is complete, a failure
\* is raised or the buffer ends; consumed: the bytes absorbed by this call
RECURSIVE Consume(_, _)
Consume(F, buf) ==
    IF buf = <<>>
    THEN [f |-> F, consumed |-> 0, exc |-> "none"]
    ELSE Only({IF r.exc # "none" \/ r.f.st = "COMPLETE"
               THEN [f |-> r.f, consumed |-> 1, exc |-> r.exc]
               ELSE [Consume(r.f, t) EXCEPT !.consumed = @ + 1] :
                  r \in {ConsumeByte(F, Head(buf))}, t \in {Tail(buf)}})

\* the limits of the filter for incomplete frames, and its resync skip
NumbersLimit == 30

StringLimit == 251

ResyncSkip == 2

\* the filter of _handle_received_data for a frame that consume left
\* incomplete: the frame that is kept (or None) and the bytes to drop
FilterIncomplete(F, consumed) ==
    LET F1 == IF /\ F.command # "NONE"
                 /\ (IsPlant(F.command) \/ F.command \notin {"RESPONSE", "LONG_RESPONSE"})
              THEN NoFrame ELSE F
    IN  IF F1.st = "None" \/ F1.id = ""
        THEN [f |-> F1, consumed |-> consumed]
        ELSE IF F1.id \notin IDS
        THEN [f |-> NoFrame, consumed |-> consumed]
        ELSE IF RegType(F1.id) \in {"int", "float"}
        THEN IF F1.frame_length > NumbersLimit \/ F1.consumed_bytes > NumbersLimit
             THEN [f |-> NoFrame, consumed |-> ResyncSkip]
             ELSE [f |-> F1, consumed |-> consumed]
        ELSE IF RegType(F1.id) = "str" /\ ~IsLong(F1.command) /\ F1.frame_length > StringLimit
        THEN [f |-> NoFrame, consumed |-> ResyncSkip]
        ELSE [f |-> F1, consumed |-> consumed]

\* buf[n:]
Drop(buf, n) == SubSeq(buf, n + 1, Len(buf))

\* what the device has sent: every byte (input), the bytes not yet read
\* from the socket (rest), whether every frame was a valid one, the frames
\* handed to on_frame, and whether an iteration of the receive loop ended
\* without removing a byte
NewWire == [input |-> <<>>, rest |-> <<>>, valid |-> TRUE, sent |-> 0, dispatched |-> <<>>,
            stalled |-> FALSE]


\* ------------------------------------------------------------------ Daemon
VARIABLES
    now,        \* the wall clock (datetime.utcnow())
    cfg,        \* settings: influxdb.enable, mqtt.enable
    pc,         \* position of the main loop: top, select, recv, sinks, exited, crashed
    crash,      \* the call whose exception left the main loop, or "none"
    stop,       \* _stop
    connected,  \* _connected
    sock,       \* _socket: unset, pending (connect in progress), open, closed
    sel,        \* whether sockets_read / sockets_write hold the socket
    send_buf,   \* _send_buf: the queued request payloads
    recv_buf,   \* _recv_buf: what was received and is not yet processed
    current_frame,  \* _current_frame: the decoder of the frame under way
    wire,       \* the bytes the device has sent (not program state)
    scrape,     \* the scrape thread: its position in collect and its samples
    ts,         \* the TSCollection
    dm,         \* the DeviceManager
    influx,     \* the InfluxDB wrapper
    mon,        \* the monitoring counters
    hist        \* history of requests and responses (not program state)

vars == <<now, cfg, pc, crash, stop, connected, sock, sel, send_buf, recv_buf,
          current_frame, wire, scrape, ts, dm, influx, mon, hist>>

\* the frames the device can put on the wire: a response that decodes, a
\* response whose payload does not unpack, a frame with a wrong CRC
WireFrames ==
    UNION {{[id |-> i, value |-> v, kind |-> "ok"] : v \in ValuesOf(i)} : i \in WireIds}
    \cup {[id |-> i, value |-> NoneV, kind |-> "unpack"] : i \in {DESC, RB_UGRID0}}
    \cup {[id |-> DESC, value |-> NoneV, kind |-> "crc"]}

\* results of socket.connect_ex
ConnectResults == {"EINPROGRESS", "0", "ECONNREFUSED", "EOTHER"}

\* results of socket.recv when select reports the socket readable
ReadOutcomes == {"none", "data", "empty", "ConnectionError", "OSError"}

\* results of socket.send when select reports the socket writable
WriteOutcomes == {"none", "all", "part", "zero", "EAGAIN", "error"}

\* TSCollection as the class body leaves it at import time
NewTS ==
    [last_contact_attempt |-> Never, last_frame_sent |-> Never, last_data_received |-> 0,
     last_influx_collect |-> 0, last_influx_flush |-> 0, last_mqtt_flush |-> 0]

NewMon ==
    [lost_normal |-> 0, lost_inventory |-> 0, frames_sent |-> 0, frames_received |-> 0,
     decode_payload |-> 0, decode_crc |-> 0, decode_command |-> 0, device_up |-> 0]

\* neither recv nor send has been called
NoIO == [rd |-> "none", wr |-> "none"]

NewHist ==
    [sends |-> [i \in IDS |-> 0],          \* requests since the latest enrollment
     enrolled |-> [i \in IDS |-> IF i = DESC THEN 0 ELSE Never],  \* time of that enrollment
     last_req |-> [i \in IDS |-> Never],   \* time of the latest request
     awaiting |-> [i \in IDS |-> FALSE],   \* requested, and no response dispatched since
     answered |-> [i \in IDS |-> FALSE],   \* a response has been dispatched
     serials |-> [k \in Modules |-> {}],   \* the non-empty serials dispatched for module k
     injected |-> 0,                       \* frames received so far
     clears |-> 0,                         \* calls of clear_inventory so far
     sink_calls |-> 0,                     \* calls of the InfluxDB wrapper under SinkSpec
     flushes |-> 0,                        \* of these, the calls of flush
     faults |-> 0,                         \* socket failures so far
     iters |-> 0,                          \* iterations of the main loop so far
     jumps |-> 0,                          \* clock advances of more than a second so far
     batch |-> <<>>,                       \* what the latest payloads call staged
     queued |-> <<>>,                      \* appended to _send_buf since the latest connect
     written |-> <<>>,                     \* accepted by send() since the latest connect
     connect |-> "none",                   \* what the latest connect_ex returned
     io |-> NoIO,                          \* what recv and send did in the iteration under way
     idle_at |-> Never]                    \* time of the latest idle-timeout disconnect

\* Daemon.__init__
Init ==
    /\ now = 0
    /\ cfg \in [influx : BOOLEAN, mqtt : BOOLEAN]
    /\ pc = "top"
    /\ crash = "none"
    /\ stop = FALSE
    /\ connected = FALSE
    /\ sock = "unset"
    /\ sel = [r |-> FALSE, w |-> FALSE]
    /\ send_buf = <<>>
    /\ recv_buf = <<>>
    /\ current_frame = NoFrame
    /\ wire = NewWire
    /\ scrape = NoScrape
    /\ ts = NewTS
    /\ dm = NewDeviceManager
    /\ influx = NewInflux(cfg.influx)
    /\ mon = NewMon
    /\ hist = NewHist

\* signal_handler(SIGTERM); the flag is only read by the loop condition, so
\* a signal during an iteration is one that arrives before the next test
Signal ==
    /\ pc = "top"
    /\ ~stop
    /\ stop' = TRUE
    /\ UNCHANGED <<now, cfg, pc, crash, connected, sock, sel, send_buf, recv_buf, ts, dm,
                   influx, mon, hist,
                   current_frame, wire, scrape>>

\* the loop condition fails: cleanup() calls _socket_disconnect, which
\* evaluates self._socket
LoopExit ==
    /\ pc = "top"
    /\ stop
    /\ connected' = FALSE
    /\ send_buf' = <<>>
    /\ IF sock = "unset"
       THEN pc' = "crashed" /\ crash' = "cleanup" /\ sock' = sock
       ELSE pc' = "exited" /\ crash' = crash /\ sock' = "closed"
    /\ UNCHANGED <<now, cfg, stop, sel, recv_buf, ts, dm, influx, mon, hist,
                   current_frame, wire, scrape>>

\* ReconnectDue with the attempt already at 60 s, not after
ReconnectDue_AtSixty(t, tnow) == OlderEq(t, tnow, ReconnectSeconds)

\* last_contact_attempt < utcnow() - 60 s
ReconnectDue(t, tnow) == Older(t, tnow, ReconnectSeconds)

\* IdleDue with the timeout already at 180 s, not after
IdleDue_AtLimit(t, tnow) == OlderEq(t, tnow, IdleSeconds)

\* last_data_received < utcnow() - 180 s
IdleDue(t, tnow) == Older(t, tnow, IdleSeconds)

\* not connected, and the last attempt is more than 60 s ago: _socket_connect
ConnectAttempt ==
    /\ pc = "top"
    /\ ~stop
    /\ ~connected
    /\ ReconnectDue(ts.last_contact_attempt, now)
    /\ \E err \in ConnectResults :
          /\ connected' = (err = "EINPROGRESS")
          /\ ts' = [ts EXCEPT !.last_contact_attempt = now,
                              !.last_data_received = IF err = "EINPROGRESS" THEN now ELSE @]
          /\ sock' = IF err = "EINPROGRESS" THEN "pending" ELSE "open"
          /\ hist' = [hist EXCEPT !.iters = @ + 1, !.queued = <<>>, !.written = <<>>,
                                  !.connect = err]
    /\ mon' = [mon EXCEPT !.device_up = 0]
    /\ sel' = [r |-> FALSE, w |-> FALSE]
    /\ pc' = "select"
    /\ hist.iters < MaxIters
    /\ UNCHANGED <<now, cfg, crash, stop, send_buf, recv_buf, dm, influx,
                   current_frame, wire, scrape>>

\* not connected, and the last attempt is recent
WaitReconnect ==
    /\ pc = "top"
    /\ ~stop
    /\ ~connected
    /\ ~ReconnectDue(ts.last_contact_attempt, now)
    /\ mon' = [mon EXCEPT !.device_up = 0]
    /\ sel' = [r |-> FALSE, w |-> FALSE]
    /\ pc' = "select"
    /\ hist.iters < MaxIters
    /\ hist' = [hist EXCEPT !.iters = @ + 1]
    /\ UNCHANGED <<now, cfg, crash, stop, connected, sock, send_buf, recv_buf, ts, dm, influx,
                   current_frame, wire, scrape>>

\* IdleTimeout with a disconnect that also stamps last_contact_attempt
IdleTimeout_StampsAttempt ==
    /\ pc = "top"
    /\ ~stop
    /\ connected
    /\ IdleDue(ts.last_data_received, now)
    /\ connected' = FALSE
    /\ send_buf' = <<>>
    /\ sock' = "closed"
    /\ sel' = [r |-> FALSE, w |-> FALSE]
    /\ pc' = "select"
    /\ hist.iters < MaxIters
    /\ hist' = [hist EXCEPT !.iters = @ + 1, !.idle_at = now]
    /\ ts' = [ts EXCEPT !.last_contact_attempt = now]
    /\ UNCHANGED <<now, cfg, crash, stop, recv_buf, dm, influx, mon,
                   current_frame, wire, scrape>>

\* connected, and no data for more than 180 s: _socket_disconnect
IdleTimeout ==
    /\ pc = "top"
    /\ ~stop
    /\ connected
    /\ IdleDue(ts.last_data_received, now)
    /\ connected' = FALSE
    /\ send_buf' = <<>>
    /\ sock' = "closed"
    /\ sel' = [r |-> FALSE, w |-> FALSE]
    /\ pc' = "select"
    /\ hist.iters < MaxIters
    /\ hist' = [hist EXCEPT !.iters = @ + 1, !.idle_at = now]
    /\ UNCHANGED <<now, cfg, crash, stop, recv_buf, ts, dm, influx, mon,
                   current_frame, wire, scrape>>

\* the history after payloads() staged the ids of batch
HistAfterPayloads(H, batch, tnow) ==
    [H EXCEPT !.sends = [i \in IDS |-> IF i \in Range(batch) THEN @[i] + 1 ELSE @[i]],
              !.last_req = [i \in IDS |-> IF i \in Range(batch) THEN tnow ELSE @[i]],
              !.awaiting = [i \in IDS |-> @[i] \/ i \in Range(batch)],
              !.batch = batch]

\* connected: once a second the scheduler output is appended to the send buffer
Poll ==
    /\ pc = "top"
    /\ ~stop
    /\ connected
    /\ ~IdleDue(ts.last_data_received, now)
    /\ hist.iters < MaxIters
    /\ IF OlderEq(ts.last_frame_sent, now, PollSeconds)
       THEN /\ ts' = [ts EXCEPT !.last_frame_sent = now]
            /\ send_buf' = send_buf \o Staging(dm, now)
            /\ dm' = [dm EXCEPT !.frames = PayloadsFrames(dm, now)]
            /\ mon' = [PayloadsMon(dm, mon, now) EXCEPT !.device_up = 1]
            /\ hist' = [HistAfterPayloads(hist, Staging(dm, now), now) EXCEPT
                           !.iters = @ + 1, !.queued = @ \o Staging(dm, now)]
       ELSE /\ mon' = [mon EXCEPT !.device_up = 1]
            /\ hist' = [hist EXCEPT !.iters = @ + 1]
            /\ UNCHANGED <<ts, send_buf, dm>>
    /\ sel' = [r |-> TRUE, w |-> send_buf' # <<>>]
    /\ pc' = "select"
    /\ UNCHANGED <<now, cfg, crash, stop, connected, sock, recv_buf, influx,
                   current_frame, wire, scrape>>

\* the clock advance d during one iteration is allowed
StepAllowed(d) == d \in LoopSteps /\ (d > 1 => hist.jumps < MaxJumps)

\* the history after the clock advanced by d
HistAfterStep(H, d) == [H EXCEPT !.jumps = IF d > 1 THEN @ + 1 ELSE @]

\* select() reports the socket in the exceptional set: disconnect, continue
SelectException ==
    /\ pc = "select"
    /\ sel.r
    /\ hist.faults < MaxFaults
    /\ \E d \in LoopSteps :
          /\ StepAllowed(d)
          /\ now' = now + d
          /\ hist' = [HistAfterStep(hist, d) EXCEPT !.faults = @ + 1]
    /\ connected' = FALSE
    /\ send_buf' = <<>>
    /\ sock' = "closed"
    /\ pc' = "top"
    /\ UNCHANGED <<cfg, crash, stop, sel, recv_buf, ts, dm, influx, mon,
                   current_frame, wire, scrape>>

\* _handle_socket_read disconnects
ReadDisconnects(rd) == rd \in {"empty", "ConnectionError"}

\* _handle_socket_writable disconnects
WriteDisconnects(wr) == wr \in {"zero", "error"}

\* what send() accepted of the buffer: all of it, or a part of it
Sent(buf, wr) ==
    IF wr = "all" THEN buf ELSE IF wr = "part" THEN <<Head(buf)>> ELSE <<>>

\* AfterSend with a partial write that leaves the buffer as it was
AfterSend_KeepsWritten(buf, wr) ==
    IF WriteDisconnects(wr) \/ wr = "all" THEN <<>> ELSE buf

\* _send_buf after _handle_socket_writable: _send_buf[num_sent:], emptied
\* by the disconnect, untouched on EAGAIN
AfterSend(buf, wr) ==
    IF WriteDisconnects(wr) THEN <<>>
    ELSE SubSeq(buf, Len(Sent(buf, wr)) + 1, Len(buf))

\* a pending connect is known to have succeeded once recv returned data or
\* send accepted data
ConnectConfirmed(rd, wr) == rd = "data" \/ wr \in {"all", "part"}

\* what the device and the network can do in one iteration: the result of
\* recv (with the frame received), and the result of send
SelectInputs ==
    {[rd |-> "data", fr |-> f, wr |-> w] : f \in WireFrames, w \in WriteOutcomes}
    \cup {[rd |-> r, fr |-> [id |-> DESC, value |-> NoneV, kind |-> "crc"], wr |-> w] :
            r \in ReadOutcomes \ {"data"}, w \in WriteOutcomes}

\* select() returns (or times out): _handle_socket_read if readable,
\* _handle_socket_writable if writable and still connected
SelectIO ==
    /\ pc = "select"
    /\ \E d \in LoopSteps, in \in SelectInputs :
          LET rd == in.rd
              wr == in.wr
              conn1 == connected /\ ~ReadDisconnects(rd)
              sb1 == IF ReadDisconnects(rd) THEN <<>> ELSE send_buf
              writes == sel.w /\ wr # "none" /\ conn1 /\ rd # "OSError" /\ Len(sb1) > 0
              fault == rd \in {"empty", "ConnectionError", "OSError"}
                       \/ (sel.w /\ wr # "all")
          IN
          /\ StepAllowed(d)
          /\ now' = now + d
          /\ ~sel.r => rd = "none"
          /\ ~sel.w => wr = "none"
          /\ rd = "data" => hist.injected < MaxLoopFrames
          /\ fault => hist.faults < MaxFaults
          /\ recv_buf' = IF rd = "data" THEN Append(recv_buf, in.fr) ELSE recv_buf
          /\ hist' = [HistAfterStep(hist, d) EXCEPT
                         !.injected = IF rd = "data" THEN @ + 1 ELSE @,
                         !.faults = IF fault THEN @ + 1 ELSE @,
                         !.io = [rd |-> rd, wr |-> IF writes THEN wr ELSE "none"],
                         !.written = IF writes THEN @ \o Sent(sb1, wr) ELSE @]
          /\ connected' = (conn1 /\ ~(writes /\ WriteDisconnects(wr)))
          /\ send_buf' = IF writes THEN AfterSend(sb1, wr) ELSE sb1
          /\ sock' = IF ReadDisconnects(rd) \/ (writes /\ WriteDisconnects(wr))
                     THEN "closed"
                     ELSE IF sock = "pending" /\ ConnectConfirmed(rd, IF writes THEN wr ELSE "none")
                     THEN "open" ELSE sock
          /\ IF rd = "OSError"
             THEN pc' = "crashed" /\ crash' = "socket_read"
             ELSE pc' = "recv" /\ crash' = crash
    /\ UNCHANGED <<cfg, stop, sel, ts, dm, influx, mon,
                   current_frame, wire, scrape>>

\* the history after a frame has been handed to on_frame
HistAfterFrame(H, S, S1, fr, tnow) ==
    LET marked == fr.id \in DOMAIN S.frames /\ fr.kind = "ok" IN
    [H EXCEPT !.sends = [i \in IDS |-> IF S1.enr[i] # S.enr[i] THEN 0 ELSE @[i]],
              !.enrolled = [i \in IDS |-> IF S1.enr[i] # S.enr[i] THEN tnow ELSE @[i]],
              !.awaiting = [i \in IDS |-> @[i] /\ ~(marked /\ i = fr.id)],
              !.answered = [i \in IDS |-> @[i] \/ (marked /\ i = fr.id)],
              !.serials = [k \in Modules |->
                              IF marked /\ fr.id = ModuleSn(k) /\ fr.value # StrV(<<>>)
                              THEN @[k] \cup {fr.value} ELSE @[k]]]

\* _handle_received_data: the result is the DeviceManager, the InfluxDB
\* wrapper, the counters, the history, what is left of the receive buffer
\* and whether an exception left the function
RECURSIVE HandleReceivedData(_, _, _, _, _, _)
HandleReceivedData(S, I, M, H, buf, tnow) ==
    IF buf = <<>>
    THEN [dm |-> S, influx |-> I, mon |-> M, hist |-> H, rest |-> buf, raised |-> FALSE]
    ELSE LET fr == Head(buf) IN
         IF fr.kind = "crc"
         THEN HandleReceivedData(S, I, [M EXCEPT !.decode_crc = @ + 1], H, Tail(buf), tnow)
         ELSE LET r == OnFrame(S, I, [M EXCEPT !.frames_received = @ + 1], fr, tnow)
                  H1 == HistAfterFrame(H, S, r.dm, fr, tnow)
              IN  IF r.raised
                  THEN [dm |-> r.dm, influx |-> r.influx, mon |-> r.mon, hist |-> H1,
                        rest |-> buf, raised |-> TRUE]
                  ELSE HandleReceivedData(r.dm, r.influx, r.mon, H1, Tail(buf), tnow)

\* the receive buffer is processed
Receive ==
    /\ pc = "recv"
    /\ LET r == HandleReceivedData(dm, influx, mon, hist, recv_buf, now) IN
       /\ dm' = r.dm
       /\ influx' = r.influx
       /\ mon' = r.mon
       /\ hist' = [r.hist EXCEPT !.io = NoIO]
       /\ recv_buf' = r.rest
       /\ ts' = IF recv_buf # <<>> THEN [ts EXCEPT !.last_data_received = now] ELSE ts
       /\ IF r.raised
          THEN pc' = "crashed" /\ crash' = "on_frame"
          ELSE pc' = "sinks" /\ crash' = crash
    /\ UNCHANGED <<now, cfg, stop, connected, sock, sel, send_buf,
                   current_frame, wire, scrape>>

\* the TSDB collect, the TSDB flush and the message-bus flush, each when
\* its cadence is due; write_ok / bus_ok: the client library call returns
\* without raising
Sinks ==
    /\ pc = "sinks"
    /\ \E write_ok \in BOOLEAN, bus_ok \in BOOLEAN :
          LET collect == Older(ts.last_influx_collect, now, InfluxSeconds)
              adds == collect /\ CollectAdds(dm)
              raise1 == adds /\ AddPointsRaises(influx)
              I1 == IF adds /\ ~raise1 THEN AddPoints(influx) ELSE influx
              flush == ~raise1 /\ Older(ts.last_influx_flush, now, InfluxSeconds)
              raise2 == flush /\ (FlushRaises(I1) \/ (I1.buffer > 0 /\ ~write_ok))
              I2 == IF flush /\ ~FlushRaises(I1) THEN Flush(I1, write_ok) ELSE I1
              bus == ~raise1 /\ ~raise2 /\ Older(ts.last_mqtt_flush, now, MqttFlushSeconds)
              raise3 == bus /\ (~cfg.mqtt \/ ~bus_ok)
          IN
          /\ (I1.buffer = 0 \/ ~flush) => write_ok
          /\ (~bus \/ ~cfg.mqtt) => bus_ok
          /\ influx' = I2
          /\ ts' = [ts EXCEPT !.last_influx_collect = IF collect THEN now ELSE @,
                              !.last_influx_flush = IF flush THEN now ELSE @,
                              !.last_mqtt_flush = IF bus THEN now ELSE @]
          /\ IF raise1 \/ raise2 \/ raise3
             THEN /\ pc' = "crashed"
                  /\ crash' = IF raise1 THEN "influx_collect"
                              ELSE IF raise2 THEN "influx_flush" ELSE "mqtt_flush"
             ELSE pc' = "top" /\ crash' = crash
    /\ UNCHANGED <<now, cfg, stop, connected, sock, sel, send_buf, recv_buf, dm, mon, hist,
                   current_frame, wire, scrape>>

Next ==
    \/ Signal
    \/ LoopExit
    \/ ConnectAttempt
    \/ WaitReconnect
    \/ IdleTimeout
    \/ Poll
    \/ SelectException
    \/ SelectIO
    \/ Receive
    \/ Sinks

Spec == Init /\ [][Next]_vars

\* p is a prefix of q
IsPrefix(p, q) == Len(p) <= Len(q) /\ p = SubSeq(q, 1, Len(p))

\* C33: what has been written to the socket since the connection was made
\* is a prefix of what the scheduler appended since then; while connected,
\* the written part followed by the send buffer is exactly what was
\* appended (a partial write removes the written front and nothing else);
\* while disconnected the send buffer is empty
C33_SendBufferIntegrity ==
    /\ IsPrefix(hist.written, hist.queued)
    /\ connected => hist.written \o send_buf = hist.queued
    /\ ~connected => send_buf = <<>>

\* a partial write has left a remainder queued on a live connection
C33_PartialWriteDone ==
    connected /\ hist.io.wr = "part" /\ hist.written # <<>> /\ send_buf # <<>>

\* ------------------------------------------- the DeviceManager on its own
\* The DeviceManager called the way the main loop calls it (payloads at
\* most once a second, on_frame for every complete frame), at any times.

\* the clock advances, once payloads() has been called for this second
SchedTick ==
    /\ pc = "top"
    /\ ~OlderEq(ts.last_frame_sent, now, PollSeconds)
    /\ \E d \in Steps : now + d <= MaxTime /\ now' = now + d
    /\ UNCHANGED <<cfg, pc, crash, stop, connected, sock, sel, send_buf, recv_buf, ts, dm,
                   influx, mon, hist,
                   current_frame, wire, scrape>>

\* payloads()
SchedPayloads ==
    /\ pc = "top"
    /\ OlderEq(ts.last_frame_sent, now, PollSeconds)
    /\ ts' = [ts EXCEPT !.last_frame_sent = now]
    /\ dm' = [dm EXCEPT !.frames = PayloadsFrames(dm, now)]
    /\ mon' = PayloadsMon(dm, mon, now)
    /\ hist' = HistAfterPayloads(hist, Staging(dm, now), now)
    /\ UNCHANGED <<now, cfg, pc, crash, stop, connected, sock, sel, send_buf, recv_buf, influx,
                   current_frame, wire, scrape>>

\* on_frame(frame) for a complete frame, received since the previous call
\* of payloads()
SchedFrame ==
    /\ pc = "top"
    /\ ts.last_frame_sent # Never
    /\ OlderEq(ts.last_frame_sent, now, PollSeconds)
    /\ hist.injected < MaxFrames
    /\ \E fr \in {f \in WireFrames : f.kind # "crc"} :
          LET r == OnFrame(dm, influx, mon, fr, now) IN
          /\ dm' = r.dm
          /\ influx' = r.influx
          /\ mon' = r.mon
          /\ hist' = [HistAfterFrame(hist, dm, r.dm, fr, now) EXCEPT !.injected = @ + 1]
          /\ IF r.raised
             THEN pc' = "crashed" /\ crash' = "on_frame"
             ELSE pc' = pc /\ crash' = crash
    /\ UNCHANGED <<now, cfg, stop, connected, sock, sel, send_buf, recv_buf, ts,
                   current_frame, wire, scrape>>

SchedNext ==
    \/ SchedTick
    \/ SchedPayloads
    \/ SchedFrame

\* the message bus plays no part at this level
SchedInit == Init /\ ~cfg.mqtt

SchedSpec == SchedInit /\ [][SchedNext]_vars


\* ------------------------------------------------ the handlers on their own
\* on_frame called with the responses of a device that has every component,
\* in any order and without the scheduler in between.

\* the serial numbers a battery module reports; the empty one: no module
Serials == { <<>>, <<"A">>, <<"B">> }

\* the values decode_value produces for the responses of that device
HandlerValues(id) ==
    CASE id = DESC -> {StrV(str) : str \in DescStrings \cup { <<" ">>, <<"R", " ", "C">> }}
      [] id \in DOMAIN BAT_IDS_MODULE_SN -> {StrV(str) : str \in Serials}
      [] id = BAT_TYPE -> {IntV(0), IntV(3)}
      [] RegType(id) = "str" -> {StrV(<<"A">>)}
      [] RegType(id) = "bool" -> {BoolV(TRUE), BoolV(FALSE)}
      [] RegType(id) = "int" -> {IntV(1)}
      [] OTHER -> {FloatV(1)}

HandlerFrames ==
    UNION {{[id |-> i, value |-> v, kind |-> "ok"] : v \in HandlerValues(i)} : i \in IDS}

\* on_frame(frame) for a complete frame
HandlerFrame ==
    /\ pc = "top"
    /\ hist.injected < MaxCalls
    /\ \E fr \in HandlerFrames :
          LET r == OnFrame(dm, influx, mon, fr, now) IN
          /\ dm' = r.dm
          /\ influx' = r.influx
          /\ mon' = r.mon
          /\ hist' = [HistAfterFrame(hist, dm, r.dm, fr, now) EXCEPT !.injected = @ + 1]
          /\ IF r.raised
             THEN pc' = "crashed" /\ crash' = "on_frame"
             ELSE pc' = pc /\ crash' = crash
    /\ UNCHANGED <<now, cfg, stop, connected, sock, sel, send_buf, recv_buf, ts,
                   current_frame, wire, scrape>>

HandlerNext == HandlerFrame

HandlerSpec == SchedInit /\ [][HandlerNext]_vars


\* ------------------------------------------------ the receive path by bytes
\* The bytes the device sends reach _handle_received_data in the chunks the
\* socket delivers; on_frame is the one of the DeviceManager.

\* a frame on the wire with a payload of one byte
FrameBytes(cmd, id, crc) == <<START, cmd, "n2", id, "d", crc>>

\* bytes that start no frame
Junk == [i \in 1..NumbersLimit + 1 |-> "j"]

\* well-formed frames: responses for ids of the registry, a response for an
\* id the registry does not have, a response of plant communication
ValidFrames ==
    {FrameBytes("R", DESC, "ok"), FrameBytes("R", TEMP1, "ok"), FrameBytes("R", "unknown", "ok"),
     FrameBytes("P", DESC, "ok")}

\* what a disturbed line delivers: a wrong CRC, an unknown command, a
\* request of another client, headers that declare a length beyond the
\* limits with nothing behind them, a header after a run of junk
BrokenFrames ==
    {FrameBytes("R", TEMP1, "bad"), <<START, "X">>, <<START, "Q", "n2">>,
     <<START, "R", "n40", TEMP1>>, <<START, "R", "n252", DESC>>,
     Junk \o <<START, "R", "n2", TEMP1>>}

\* decode_value for the payload of a complete frame; the payload bytes are
\* not told apart, every response for an id carries the same value
DecodedValue(id) ==
    IF RegType(id) = "str" THEN StrV(<<" ", "R", " ">>) ELSE CHOOSE v \in ValuesOf(id) : TRUE

\* the state _handle_received_data works on
ReceiveState(S, I, M, H, buf, F, W) ==
    [dm |-> S, influx |-> I, mon |-> M, hist |-> H, buf |-> buf, frame |-> F,
     dispatched |-> W.dispatched, stalled |-> W.stalled, raised |-> FALSE]

\* what on_frame and the bookkeeping make of the complete frame F
Dispatch(Z, F, tnow) ==
    LET fr == [id |-> F.id, value |-> DecodedValue(F.id), kind |-> "ok"] IN
    Only({[Z EXCEPT !.dm = r.dm, !.influx = r.influx, !.mon = r.mon,
                    !.hist = HistAfterFrame(@, Z.dm, r.dm, fr, tnow),
                    !.dispatched = Append(@, [id |-> F.id, command |-> F.command]),
                    !.raised = r.raised] :
             r \in {OnFrame(Z.dm, Z.influx, [Z.mon EXCEPT !.frames_received = @ + 1], fr, tnow)}})

\* one iteration of the loop of _handle_received_data
ReceiveIteration(Z, tnow) ==
    Only({IF c.exc # "none"
          THEN [Z EXCEPT !.frame = NoFrame,
                         !.mon = IF c.exc = "crc" THEN [@ EXCEPT !.decode_crc = @ + 1]
                                 ELSE [@ EXCEPT !.decode_command = @ + 1],
                         !.buf = Drop(@, c.consumed)]
          ELSE IF c.f.st = "COMPLETE"
          THEN Only({IF Z1.raised
                     THEN [Z1 EXCEPT !.frame = c.f]
                     ELSE [Z1 EXCEPT !.frame = NoFrame, !.buf = Drop(@, c.consumed)] :
                        Z1 \in {Dispatch(Z, c.f, tnow)}})
          ELSE LET k == FilterIncomplete(c.f, c.consumed) IN
               [Z EXCEPT !.frame = k.f, !.buf = Drop(@, k.consumed)] :
             c \in {Consume(IF Z.frame = NoFrame THEN NewReceiveFrame ELSE Z.frame, Z.buf)}})

\* _handle_received_data on bytes: the loop runs until the buffer is empty
\* or an exception leaves it; an iteration that removed no byte is recorded
\* and ends the unrolling
RECURSIVE HandleReceivedBytes(_, _)
HandleReceivedBytes(Z, tnow) ==
    IF Z.buf = <<>> \/ Z.raised
    THEN Z
    ELSE Only({IF ~Z1.raised /\ Len(Z1.buf) >= Len(Z.buf)
               THEN [Z1 EXCEPT !.stalled = TRUE]
               ELSE HandleReceivedBytes(Z1, tnow) :
                  Z1 \in {ReceiveIteration(Z, tnow)}})

\* the device sends a frame
DecodeSend ==
    /\ pc = "top"
    /\ wire.sent < MaxWireFrames
    /\ \E f \in ValidFrames \cup BrokenFrames :
          wire' = [wire EXCEPT !.input = @ \o f, !.rest = @ \o f, !.sent = @ + 1,
                               !.valid = @ /\ f \in ValidFrames]
    /\ UNCHANGED <<now, cfg, pc, crash, stop, connected, sock, sel, send_buf, recv_buf,
                   current_frame, ts, dm, influx, mon, hist, scrape>>

\* _handle_socket_read: recv returns the next k bytes
DecodeRead ==
    /\ pc = "top"
    /\ wire.rest # <<>>
    /\ \E k \in 1..Len(wire.rest) :
          /\ recv_buf' = recv_buf \o SubSeq(wire.rest, 1, k)
          /\ wire' = [wire EXCEPT !.rest = Drop(@, k)]
    /\ pc' = "recv"
    /\ UNCHANGED <<now, cfg, crash, stop, connected, sock, sel, send_buf, current_frame, ts,
                   dm, influx, mon, hist, scrape>>

\* _handle_received_data
DecodeHandle ==
    /\ pc = "recv"
    /\ \E r \in {HandleReceivedBytes(
                    ReceiveState(dm, influx, mon, hist, recv_buf, current_frame, wire), now)} :
          /\ dm' = r.dm
          /\ influx' = r.influx
          /\ mon' = r.mon
          /\ hist' = r.hist
          /\ recv_buf' = r.buf
          /\ current_frame' = r.frame
          /\ wire' = [wire EXCEPT !.dispatched = r.dispatched, !.stalled = r.stalled]
          /\ ts' = [ts EXCEPT !.last_data_received = now]
          /\ IF r.raised
             THEN pc' = "crashed" /\ crash' = "on_frame"
             ELSE pc' = "top" /\ crash' = crash
    /\ UNCHANGED <<now, cfg, stop, connected, sock, sel, send_buf, scrape>>

DecodeNext ==
    \/ DecodeSend
    \/ DecodeRead
    \/ DecodeHandle

DecodeSpec == SchedInit /\ [][DecodeNext]_vars


\* ------------------------------------------- the receive path over reconnects
\* The byte-level receive path with the connection lost and made again in
\* between.

\* _socket_connect, the connect in progress
DecodeConnect ==
    /\ pc = "top"
    /\ ~connected
    /\ connected' = TRUE
    /\ sock' = "pending"
    /\ UNCHANGED <<now, cfg, pc, crash, stop, sel, send_buf, recv_buf, current_frame, wire,
                   ts, dm, influx, mon, hist, scrape>>

\* _socket_disconnect; the bytes the device sent and the daemon has not
\* read are lost with the connection
DecodeDisconnect ==
    /\ pc = "top"
    /\ connected
    /\ hist.faults < MaxFaults
    /\ connected' = FALSE
    /\ send_buf' = <<>>
    /\ sock' = "closed"
    /\ wire' = [wire EXCEPT !.rest = <<>>]
    /\ hist' = [hist EXCEPT !.faults = @ + 1]
    /\ UNCHANGED <<now, cfg, pc, crash, stop, sel, recv_buf, current_frame, ts, dm, influx,
                   mon, scrape>>

\* the device sends and the daemon reads while the connection lasts
ReconnectSend == connected /\ DecodeSend

ReconnectRead == connected /\ DecodeRead

ReconnectNext ==
    \/ DecodeConnect
    \/ DecodeDisconnect
    \/ ReconnectSend
    \/ ReconnectRead
    \/ DecodeHandle

ReconnectSpec == SchedInit /\ [][ReconnectNext]_vars


\* -------------------------------------------------- clearing the inventory
\* clear_inventory called between the handlers, which enroll ids.

\* clear_inventory()
ClearCall ==
    /\ pc = "top"
    /\ hist.clears < MaxClears
    /\ \E r \in {ClearInventory(dm)} :
          /\ dm' = r.dm
          /\ IF r.raised
             THEN pc' = "crashed" /\ crash' = "clear_inventory"
             ELSE pc' = pc /\ crash' = crash
    /\ hist' = [hist EXCEPT !.clears = @ + 1]
    /\ UNCHANGED <<now, cfg, stop, connected, sock, sel, send_buf, recv_buf, current_frame,
                   wire, ts, influx, mon, scrape>>

ClearNext ==
    \/ HandlerFrame
    \/ ClearCall

ClearSpec == SchedInit /\ [][ClearNext]_vars


\* ------------------------------------------- the InfluxDB wrapper on its own
\* add_points and flush called the way the main loop and on_frame call them,
\* without a try statement around the call.

\* add_points(point)
SinkAddPoints ==
    /\ pc = "top"
    /\ hist.sink_calls < MaxSinkCalls
    /\ hist' = [hist EXCEPT !.sink_calls = @ + 1]
    /\ IF AddPointsRaises(influx)
       THEN pc' = "crashed" /\ crash' = "add_points" /\ influx' = influx
       ELSE pc' = pc /\ crash' = crash /\ influx' = AddPoints(influx)
    /\ UNCHANGED <<now, cfg, stop, connected, sock, sel, send_buf, recv_buf, current_frame,
                   wire, ts, dm, mon, scrape>>

\* flush(); write_ok: writer.write returns without raising
SinkFlush ==
    /\ pc = "top"
    /\ hist.sink_calls < MaxSinkCalls
    /\ hist' = [hist EXCEPT !.sink_calls = @ + 1, !.flushes = @ + 1]
    /\ \E write_ok \in BOOLEAN :
          /\ influx.buffer = 0 => write_ok
          /\ IF FlushRaises(influx)
             THEN pc' = "crashed" /\ crash' = "influx_flush" /\ influx' = influx
             ELSE /\ influx' = Flush(influx, write_ok)
                  /\ IF write_ok
                     THEN pc' = pc /\ crash' = crash
                     ELSE pc' = "crashed" /\ crash' = "influx_flush"
    /\ UNCHANGED <<now, cfg, stop, connected, sock, sel, send_buf, recv_buf, current_frame,
                   wire, ts, dm, mon, scrape>>

SinkNext ==
    \/ SinkAddPoints
    \/ SinkFlush

SinkSpec == SchedInit /\ [][SinkNext]_vars


\* ------------------------------------------- a scrape beside the main loop
\* The scrape thread runs collect while the main loop dispatches frames.

\* on_frame(frame) on the main loop
ScrapeFrame ==
    /\ pc = "top"
    /\ hist.injected < MaxScrapeCalls
    /\ \E fr \in HandlerFrames :
          LET r == OnFrame(dm, influx, mon, fr, now) IN
          /\ dm' = r.dm
          /\ influx' = r.influx
          /\ mon' = r.mon
          /\ hist' = [HistAfterFrame(hist, dm, r.dm, fr, now) EXCEPT !.injected = @ + 1]
          /\ scrape' = [scrape EXCEPT !.stored =
                           [i \in ScrapeIds |->
                               IF Leaf(r.dm, i) # Leaf(dm, i)
                                  \/ (i = fr.id /\ i \in DOMAIN dm.callbacks /\ ~r.raised)
                               THEN @[i] \cup {Leaf(r.dm, i)} ELSE @[i]]]
          /\ IF r.raised
             THEN pc' = "crashed" /\ crash' = "on_frame"
             ELSE pc' = pc /\ crash' = crash
    /\ UNCHANGED <<now, cfg, stop, connected, sock, sel, send_buf, recv_buf, current_frame,
                   wire, ts>>

\* a scrape request: collect() is called on the scrape thread
ScrapeStart ==
    /\ scrape.pos \in {0, Len(ScrapeProgram) + 1}
    /\ scrape.runs < MaxScrapes
    /\ scrape' = [scrape EXCEPT !.pos = 1, !.out = NoScrape.out, !.runs = @ + 1]
    /\ UNCHANGED <<now, cfg, pc, crash, stop, connected, sock, sel, send_buf, recv_buf,
                   current_frame, wire, ts, dm, influx, mon, hist>>

\* the scrape thread reads one attribute
ScrapeStep ==
    /\ scrape.pos \in DOMAIN ScrapeProgram
    /\ scrape' = ScrapeAfter(dm, scrape)
    /\ UNCHANGED <<now, cfg, pc, crash, stop, connected, sock, sel, send_buf, recv_buf,
                   current_frame, wire, ts, dm, influx, mon, hist>>

ScrapeNext ==
    \/ ScrapeFrame
    \/ ScrapeStart
    \/ ScrapeStep

ScrapeSpec == SchedInit /\ [][ScrapeNext]_vars


\* ================================================================= claims
\* a step in which payloads() ran
PayloadsStep == ts'.last_frame_sent # ts.last_frame_sent

\* the ids staged by the payloads() call of this step
Batch == Range(hist'.batch)

\* the request for i is unanswered: sent, the frame not enrolled again
\* since, and no response dispatched
Unanswered(i) ==
    /\ i \in DOMAIN dm.frames
    /\ hist.awaiting[i]
    /\ hist.last_req[i] # Never
    /\ dm.frames[i].last_transmit = hist.last_req[i]

Ceil(a, b) == (a + b - 1) \div b

\* C1: after a call of the scheduler at time now, every frame whose request
\* was appended to the batch has last_sent = now and in_flight = true, and
\* in_flight is only cleared by a dispatched response or by the timeout path
C1_SendEffect ==
    [][/\ PayloadsStep =>
             \A i \in Batch : dm'.frames[i].last_transmit = now /\ dm'.frames[i].in_flight
       /\ \A i \in DOMAIN dm.frames \cap DOMAIN dm'.frames :
             (dm.frames[i].in_flight /\ ~dm'.frames[i].in_flight) =>
                 \/ hist.awaiting[i] /\ ~hist'.awaiting[i]
                 \/ PayloadsStep /\ LossReset(dm.frames[i], now)]_vars

\* the request for the non-inventory frame i is unanswered for at least
\* three times its interval
C2_LossDue(i) ==
    /\ Unanswered(i)
    /\ ~dm.frames[i].is_inventory
    /\ now - hist.last_req[i] >= LossFactor * dm.frames[i].interval

\* C2: a non-inventory frame with interval I sent at t and unanswered: at
\* the scheduler tick with now - t >= 3*I the 'normal' loss counter grows by
\* one for that frame and the frame is re-sent in that tick's payload
C2_LossDetection ==
    [][PayloadsStep =>
          /\ mon'.lost_normal = mon.lost_normal + Cardinality({i \in IDS : C2_LossDue(i)})
          /\ \A i \in IDS : C2_LossDue(i) => i \in Batch]_vars

\* C3: a non-inventory frame is in a tick's payload exactly when it is not
\* in flight and now - last_sent >= interval, so a frame whose last request
\* is unanswered is not requested again before 3 x interval have passed
C3_NormalEligibility ==
    [][PayloadsStep =>
          \A i \in DOMAIN dm.frames :
             ~dm.frames[i].is_inventory =>
                /\ i \in Batch <=> (/\ ~dm.frames[i].in_flight
                                    /\ OlderEq(dm.frames[i].last_transmit, now,
                                               dm.frames[i].interval))
                /\ (/\ Unanswered(i)
                    /\ now - hist.last_req[i] < LossFactor * dm.frames[i].interval)
                   => i \notin Batch]_vars

\* C4: for a non-inventory id that stays managed, last_sent never moves
\* backward, never advances by less than the interval, and two consecutive
\* requests are at least the interval apart
C4_RequestSpacing ==
    [][\A i \in DOMAIN dm.frames \cap DOMAIN dm'.frames :
          ~dm.frames[i].is_inventory =>
             /\ dm'.frames[i].last_transmit >= dm.frames[i].last_transmit
             /\ (/\ dm.frames[i].last_transmit # Never
                 /\ dm'.frames[i].last_transmit # dm.frames[i].last_transmit)
                => dm'.frames[i].last_transmit - dm.frames[i].last_transmit
                      >= dm.frames[i].interval
             /\ (PayloadsStep /\ i \in Batch /\ hist.last_req[i] # Never)
                => now - hist.last_req[i] >= dm.frames[i].interval]_vars

\* C5: once a response for an inventory id has been dispatched, no later
\* scheduler tick includes its request
C5_InventoryNotResent ==
    [][PayloadsStep =>
          \A i \in Batch : dm.frames[i].is_inventory => ~hist.answered[i]]_vars

\* C6 (as claimed): an inventory frame is in a tick's payload exactly when
\* last_received = never and (last_sent = never or now - last_sent >= 30)
C6_Original ==
    [][PayloadsStep =>
          \A i \in DOMAIN dm.frames :
             dm.frames[i].is_inventory =>
                (i \in Batch <=>
                    /\ dm.frames[i].last_arrival = Never
                    /\ \/ dm.frames[i].last_transmit = Never
                       \/ now - dm.frames[i].last_transmit >= InventoryResendSeconds)]_vars

\* C6 (amended): an inventory frame is in a tick's payload exactly when
\* last_received = never and (last_sent = never or now - last_sent > 30):
\* an unanswered frame sent at t is not re-sent at now - t = 30
C6_InventoryEligibility ==
    [][PayloadsStep =>
          \A i \in DOMAIN dm.frames :
             dm.frames[i].is_inventory =>
                (i \in Batch <=>
                    /\ dm.frames[i].last_arrival = Never
                    /\ \/ dm.frames[i].last_transmit = Never
                       \/ now - dm.frames[i].last_transmit > InventoryResendSeconds)]_vars

\* an unanswered inventory frame has been re-sent
C6_Witness ==
    \E i \in DOMAIN dm.frames :
       /\ dm.frames[i].is_inventory
       /\ dm.frames[i].last_arrival = Never
       /\ hist.sends[i] >= 2

C8_InventoryLossCounted ==
    [][PayloadsStep =>
          mon'.lost_inventory = mon.lost_inventory
             + Cardinality({i \in Batch : /\ dm.frames[i].is_inventory
                                          /\ dm.frames[i].last_transmit # Never})]_vars


FrameDispatchSinkCalls == {"on_frame", "influx_collect", "influx_flush", "mqtt_flush"}

\* C10: the main loop never ends because of a frame, dispatch or sink
\* error; it only exits after the stop flag is set
C10_LoopKeepsRunning ==
    /\ pc = "crashed" => crash \notin FrameDispatchSinkCalls
    /\ pc = "exited" => stop


\* an iteration of the main loop starts
LoopTop == pc = "top" /\ pc' = "select"

\* recv and send have been called in this step
IOStep == pc = "select" /\ pc' \in {"recv", "crashed"}

\* recv returned 0 bytes, or recv or send raised a socket error
SocketFailure(io) ==
    \/ io.rd \in {"empty", "ConnectionError", "OSError"}
    \/ io.wr = "error"

\* C11: while connected, a read of 0 bytes or any socket error of a read
\* or a write leaves the daemon disconnected, the socket closed and the
\* send buffer empty, and does not end the loop
C11_SocketErrorsDisconnect ==
    [][(IOStep /\ connected /\ SocketFailure(hist'.io)) =>
          /\ ~connected'
          /\ sock' = "closed"
          /\ send_buf' = <<>>
          /\ pc' # "crashed"]_vars

\* C12: the daemon is connected only once the pending non-blocking connect
\* has been confirmed
C12_ConnectedOnlyConfirmed ==
    connected => sock # "pending"

\* _socket_connect is called in this step
ConnectStep == ts'.last_contact_attempt # ts.last_contact_attempt

\* C13 (as claimed): two consecutive connect attempts are at least 60 s
\* apart, and while disconnected a connect is attempted as soon as 60 s
\* have passed since the previous attempt
C13_Original ==
    [][/\ ConnectStep =>
             \/ ts.last_contact_attempt = Never
             \/ now - ts.last_contact_attempt >= ReconnectSeconds
       /\ (LoopTop /\ ~connected) =>
             (ConnectStep <=> \/ ts.last_contact_attempt = Never
                              \/ now - ts.last_contact_attempt >= ReconnectSeconds)]_vars

\* C13 (amended): two consecutive connect attempts are more than 60 s
\* apart, and while disconnected a connect is attempted in the first
\* iteration in which more than 60 s have passed since the previous attempt
C13_ReconnectCadence ==
    [][/\ ConnectStep =>
             \/ ts.last_contact_attempt = Never
             \/ now - ts.last_contact_attempt > ReconnectSeconds
       /\ (LoopTop /\ ~connected) =>
             (ConnectStep <=> \/ ts.last_contact_attempt = Never
                              \/ now - ts.last_contact_attempt > ReconnectSeconds)]_vars

\* a connect attempt that is not the first one has been made
C13_Witness ==
    /\ ts.last_contact_attempt > ReconnectSeconds
    /\ sock \in {"pending", "open"}
    /\ pc = "select"

\* the idle timeout disconnects in this step
IdleFires == LoopTop /\ connected /\ ~connected' /\ sock' = "closed"

\* C14 (as claimed): while connected the idle timeout fires in the
\* iteration in which no data has been received for 180 s, once per
\* connection and never while disconnected
C14_Original ==
    [][/\ (LoopTop /\ connected) =>
             (IdleFires <=> now - ts.last_data_received >= IdleSeconds)
       /\ (LoopTop /\ ~connected) => ~(sock # "closed" /\ sock' = "closed")
       /\ IdleFires =>
             (hist.idle_at = Never \/ ts.last_contact_attempt > hist.idle_at)]_vars

\* C14 (amended): while connected the idle timeout fires in the iteration
\* in which no data has been received for more than 180 s, once per
\* connection and never while disconnected
C14_IdleTimeout ==
    [][/\ (LoopTop /\ connected) =>
             (IdleFires <=> now - ts.last_data_received > IdleSeconds)
       /\ (LoopTop /\ ~connected) => ~(sock # "closed" /\ sock' = "closed")
       /\ IdleFires =>
             (hist.idle_at = Never \/ ts.last_contact_attempt > hist.idle_at)]_vars

\* the idle timeout has just disconnected
C14_Witness ==
    /\ hist.idle_at = now
    /\ pc = "select"
    /\ ~connected
    /\ sock = "closed"

\* C15 (as claimed): the idle timeout disconnects once 180 s have passed
\* without data, and the next connect attempt is made no earlier than 60 s
\* after that disconnect
C15_Original ==
    [][/\ (LoopTop /\ connected /\ now - ts.last_data_received >= IdleSeconds) => IdleFires
       /\ (ConnectStep /\ hist.idle_at # Never) =>
             now >= hist.idle_at + ReconnectSeconds]_vars

\* C15 (amended): the idle timeout disconnects once more than 180 s have
\* passed without data, and the connect attempt is made in the next
\* iteration of the loop, the previous attempt being more than 60 s old
C15_ReconnectAfterIdle ==
    [][/\ (LoopTop /\ connected /\ now - ts.last_data_received > IdleSeconds) => IdleFires
       /\ (/\ LoopTop
           /\ ~connected
           /\ hist.idle_at # Never
           /\ ts.last_contact_attempt <= hist.idle_at) => ConnectStep]_vars

\* a connect has been attempted less than 60 s after an idle-timeout
\* disconnect
C15_Witness ==
    /\ hist.idle_at # Never
    /\ ts.last_contact_attempt > hist.idle_at
    /\ ts.last_contact_attempt < hist.idle_at + ReconnectSeconds

\* C16: once the stop flag is set the loop starts no further iteration,
\* and cleanup closes the socket and returns without error
C16_GracefulStop ==
    [][(pc = "top" /\ stop) =>
          /\ pc' = "exited"
          /\ sock' = "closed"
          /\ crash' = "none"]_vars

\* the handlers that add_ids can register
Handlers == {H_DESC, H_INV, H_PSW, H_SENS, H_GEN, H_GRID, H_ENERGY, H_BTYPE, H_BMS, H_MODSN,
             H_CYC, H_READ}

\* C18: every id of the managed table has exactly one registered handler
C18_OneHandler ==
    \A i \in DOMAIN dm.frames :
       /\ i \in DOMAIN dm.callbacks
       /\ dm.callbacks[i] \in Handlers

\* an id has been enrolled again
C18_Witness ==
    \E i \in DOMAIN dm.frames :
       /\ dm.enr[i] >= 2
       /\ i \in DOMAIN dm.callbacks

\* C19: a frame for a managed id that decodes leaves last_received = now
\* and in_flight = false, hence last_received >= last_sent
C19_ArrivalMarked ==
    \A fr \in WireFrames :
       (fr.kind = "ok" /\ fr.id \in DOMAIN dm.frames) =>
          LET r == OnFrame(dm, influx, mon, fr, now)
              st == MarkArrival(dm, fr.id, now)
          IN  /\ st.frames[fr.id].last_arrival = now
              /\ ~st.frames[fr.id].in_flight
              /\ r.dm.frames[fr.id].last_arrival = now
              /\ ~r.dm.frames[fr.id].in_flight
              /\ r.dm.frames[fr.id].last_arrival >= r.dm.frames[fr.id].last_transmit

\* a request has been answered
C19_Witness ==
    \E i \in DOMAIN dm.frames :
       /\ hist.answered[i]
       /\ dm.frames[i].last_transmit # Never
       /\ dm.frames[i].last_arrival >= dm.frames[i].last_transmit

\* C20: a frame for a managed id whose payload does not unpack adds one to
\* the 'payload' decode-error counter and changes nothing else: no handler
\* is called, readings, last_received and in_flight stay as they are
C20_UnpackError ==
    \A fr \in WireFrames :
       (fr.kind = "unpack" /\ fr.id \in DOMAIN dm.frames) =>
          LET r == OnFrame(dm, influx, mon, fr, now) IN
          /\ r.mon = [mon EXCEPT !.decode_payload = @ + 1]
          /\ r.dm = dm
          /\ r.influx = influx
          /\ ~r.raised

\* a frame that did not unpack has been received for a requested id
C20_Witness ==
    /\ mon.decode_payload >= 1
    /\ \E i \in DOMAIN dm.frames : hist.awaiting[i] /\ dm.frames[i].last_arrival = Never

\* ----------------------------------------------------- handler contracts
\* the values of the Python types a frame can decode to
TypedValues == {BoolV(TRUE), IntV(1), FloatV(1), StrV(<<"A">>)}

\* the values whose type is not the type the handler of the object expects
MistypedValues(id) == {v \in TypedValues : ~IsInstance(v, RegType(id))}

\* what the exporters read: the device name, the readings and the
\* BatteryManager with its module map
ReadingsModel(S) == [name |-> S.name, readings |-> S.readings, battery |-> S.battery_manager]

\* the handlers of the readings (every handler but the bootstrap one)
ReadingHandlers == Handlers \ {H_DESC}

\* C21: a handler of the readings (device, power switch, generator, sensor,
\* energy, battery type, BMS serial, module serial, cycle count, battery
\* readings) called with a value of the wrong type returns normally, leaves
\* the readings model unchanged and enrolls nothing
C21_TypeMismatchDropped ==
    \A i \in {j \in DOMAIN dm.callbacks : dm.callbacks[j] \in ReadingHandlers} :
       \A v \in MistypedValues(i) :
          /\ ~HandlerRaises(dm.callbacks[i], i, v)
          /\ ReadingsModel(CallHandler(dm.callbacks[i], dm, i, v)) = ReadingsModel(dm)
          /\ CallHandler(dm.callbacks[i], dm, i, v).enr = dm.enr

\* ------------------------------------------------- enrollment and fairness
\* i is in the managed table and has not been requested since it was enrolled
Fresh(i) == i \in DOMAIN dm.frames /\ hist.sends[i] = 0

\* C22 as claimed: no request is staged by a dispatch, and every id is
\* requested at the first payloads() call after its enrollment
C22_Original ==
    [][/\ ~PayloadsStep => (hist'.batch = hist.batch /\ hist'.last_req = hist.last_req)
       /\ PayloadsStep => \A i \in IDS : Fresh(i) => i \in Batch]_vars

\* C22: a dispatch stages no request; at the first payloads() call after
\* its enrollment an id is requested whatever its interval, unless it is an
\* inventory frame whose response was dispatched before that call
C22_EnrollmentNextTick ==
    [][/\ ~PayloadsStep => (hist'.batch = hist.batch /\ hist'.last_req = hist.last_req)
       /\ PayloadsStep =>
             \A i \in IDS :
                (Fresh(i) /\ ~(dm.frames[i].is_inventory /\ dm.frames[i].last_arrival # Never))
                   => (i \in Batch /\ dm'.frames[i].last_transmit = now)]_vars

\* a frame enrolled by a handler at 300 s has had its first request
C22_Witness ==
    /\ E_AC_TOTAL \in DOMAIN dm.frames
    /\ hist.sends[E_AC_TOTAL] = 1
    /\ hist.enrolled[E_AC_TOTAL] # Never
    /\ hist.last_req[E_AC_TOTAL] >= hist.enrolled[E_AC_TOTAL]
    /\ hist.last_req[E_AC_TOTAL] < hist.enrolled[E_AC_TOTAL] + 300

\* C23: every frame that is eligible at a payloads() call is part of that
\* call's payload, so no frame with an interval is still due after the call
C23_AllEligibleStaged ==
    [][PayloadsStep =>
          /\ \A i \in DOMAIN dm.frames :
                Staged(dm.frames[i], now) => (i \in Batch /\ dm'.frames[i].last_transmit = now)
          /\ \A i \in DOMAIN dm.frames :
                (~dm.frames[i].is_inventory /\ dm.frames[i].interval > 0)
                   => ~NormalDue(dm'.frames[i], now)]_vars

\* a payload of several requests, one of them a repeated periodic request
C23_Witness ==
    /\ Len(hist.batch) >= 2
    /\ \E i \in Range(hist.batch) : ~dm.frames[i].is_inventory /\ hist.sends[i] >= 2

\* ---------------------------------------------------------------- bootstrap
\* n is v without its leading and trailing blanks
IsStripOf(n, v) ==
    \E a \in 1..(Len(v) + 1), b \in 0..Len(v) :
       /\ n = SubSeq(v, a, b)
       /\ \A k \in 1..(a - 1) : v[k] = " "
       /\ \A k \in (b + 1)..Len(v) : v[k] = " "
       /\ n # <<>> => (n[1] # " " /\ n[Len(n)] # " ")

\* the fixed inventory set and (of each periodic cohort, one id)
BootstrapInventory == {INV_SN, SVN, PARAM, GEN_A, GEN_B, RB_AVAIL, BAT_TYPE}
BootstrapCohorts == {GRID_PWR, TEMP1, E_AC_TOTAL}

\* C24: the first android_description sets the name to the stripped value,
\* or to UNKNOWN when nothing is left, and enrolls the fixed inventory set
\* as inventory frames and the periodic cohorts; a later one enrolls nothing
C24_Bootstrap ==
    \A fr \in {f \in HandlerFrames : f.id = DESC} :
       LET r == OnFrame(dm, influx, mon, fr, now).dm IN
       IF ~dm.have_name
       THEN /\ r.have_name
            /\ r.name.t = "str"
            /\ IF \A k \in 1..Len(fr.value.s) : fr.value.s[k] = " "
               THEN r.name.s = UNKNOWN
               ELSE IsStripOf(r.name.s, fr.value.s)
            /\ \A i \in BootstrapInventory :
                  i \in DOMAIN r.frames /\ r.frames[i].is_inventory /\ i \in DOMAIN r.callbacks
            /\ \A i \in BootstrapCohorts :
                  i \in DOMAIN r.frames /\ ~r.frames[i].is_inventory /\ r.frames[i].interval > 0
       ELSE r.enr = dm.enr /\ DOMAIN r.frames = DOMAIN dm.frames

\* the description has been received twice; the table is the bootstrap one
C24_Witness ==
    /\ dm.have_name
    /\ dm.name = StrV(UNKNOWN)
    /\ hist.injected = 2
    /\ DOMAIN dm.frames = {DESC} \cup BootstrapInventory \cup BootstrapCohorts
    /\ \A i \in BootstrapInventory : dm.enr[i] = 1

\* -------------------------------------------------------------- battery
\* C25: the module map has an entry for module k exactly when a non-empty
\* serial was received for k, the entry holds a serial received for k, and
\* battery.stack_cycles[k] is enrolled, at 300 s, exactly for those k
C25_ModuleMap ==
    pc # "crashed" =>
        \A k \in Modules :
           LET B == dm.battery_manager.batteries IN
           /\ k \in DOMAIN B <=> hist.serials[k] # {}
           /\ k \in DOMAIN B => (B[k].serial \in hist.serials[k] /\ B[k].num = k)
           /\ StackCycles(k) \in DOMAIN dm.frames <=> k \in DOMAIN B
           /\ StackCycles(k) \in DOMAIN dm.frames =>
                 /\ dm.frames[StackCycles(k)].interval = 300
                 /\ dm.callbacks[StackCycles(k)] = H_CYC

\* serials A, empty, B for the modules 0, 1, 2
C25_Witness ==
    /\ pc # "crashed"
    /\ hist.answered[ModuleSn(1)]
    /\ DOMAIN dm.battery_manager.batteries = {0, 2}
    /\ dm.battery_manager.batteries[0].serial = StrV(<<"A">>)
    /\ dm.battery_manager.batteries[2].serial = StrV(<<"B">>)
    /\ StackCycles(1) \notin DOMAIN dm.frames

\* C26: the serial of a registered module received again leaves the entry
\* of the module (serial and cycle count) as it is
C26_DuplicateIgnored ==
    \A k \in DOMAIN dm.battery_manager.batteries :
       LET e == dm.battery_manager.batteries[k] IN
       CbBatteryModuleSn(dm, ModuleSn(k), e.serial).battery_manager.batteries[k] = e

\* C27: the scrape has a sample for a leaf exactly when a handler has set
\* the leaf
C27_ScrapeIffSet ==
    pc # "crashed" =>
        \A i \in ScrapeIds :
           i \in Collect(dm) <=> (IF i = RB_AVAIL THEN hist.answered[i] ELSE Leaf(dm, i) # NoneV)

\* C28: a handler called twice in a row with the same id and value leaves
\* the readings model that one call leaves
C28_Idempotent ==
    \A fr \in {f \in HandlerFrames : f.id \in DOMAIN dm.callbacks} :
       LET h == dm.callbacks[fr.id]
           once == CallHandler(h, dm, fr.id, fr.value)
       IN  ReadingsModel(CallHandler(h, once, fr.id, fr.value)) = ReadingsModel(once)

\* the name and a module with its cycle count are known: the handlers have
\* values to replace
C28_Witness ==
    /\ dm.have_name
    /\ 0 \in DOMAIN dm.battery_manager.batteries
    /\ dm.battery_manager.batteries[0].cycle_count # NoneV

\* ---- C29, C30: the receive path by bytes

\* _handle_received_data on a new daemon with everything the device has
\* sent in one buffer
WholeFeed ==
    HandleReceivedBytes(
       ReceiveState(NewDeviceManager, NewInflux(cfg.influx), NewMon, NewHist, wire.input,
                    NoFrame, NewWire), now)

\* C29: for a byte stream that is a concatenation of valid frames, the
\* frames handed to on_frame are the same, in the same order, however the
\* stream is cut into chunks: once every byte has been processed they are
\* the frames that one buffer holding the whole stream yields
C29_ChunkingIndependent ==
    (pc = "top" /\ wire.valid /\ wire.rest = <<>> /\ ~WholeFeed.raised)
        => wire.dispatched = WholeFeed.dispatched

\* C30: every iteration of the receive loop removes at least one byte from
\* the receive buffer, and _handle_received_data ends with the receive
\* buffer empty
C30_ReceiveTerminates ==
    [][pc = "recv" => (recv_buf' = <<>> /\ ~wire'.stalled)]_vars

\* ------------------------------------------------------------------- sinks
\* C31: after every flush, whether the write succeeded or failed, the point
\* buffer is empty
C31_FlushEmptiesBuffer ==
    [][hist'.flushes # hist.flushes => influx'.buffer = 0]_vars

\* C34: with the message bus disabled the main loop calls no bus flush and
\* no bus flush ends the loop
C34_BusDisabledNoFlush ==
    ~cfg.mqtt => (crash # "mqtt_flush" /\ ts.last_mqtt_flush = NewTS.last_mqtt_flush)

\* C35: with the TSDB sink disabled every add_points and flush call returns
\* without an error and the point buffer stays empty
C35_DisabledSinkNoOp ==
    ~cfg.influx => (crash \notin {"add_points", "influx_flush"} /\ influx.buffer = 0)

\* ---------------------------------------------------------------- scrape
\* C32: whatever the interleaving of a scrape with the handlers, the scrape
\* does not change the readings model or the table, and every sample is a
\* value that a handler has stored in the leaf of the sample
C32_ConcurrentScrape ==
    [][/\ hist'.injected = hist.injected => dm' = dm
       /\ \A i \in ScrapeIds :
             scrape'.out[i] # NoneV => scrape'.out[i] \in scrape'.stored[i]]_vars


\* ------------------------------------------------------- command filter
\* C36: every frame handed to on_frame carries the command response or
\* long-response, however the reads cut the stream
C36_OnlyResponsesDispatched ==
    \A k \in DOMAIN wire.dispatched :
        wire.dispatched[k].command \in {"RESPONSE", "LONG_RESPONSE"}


\* ---------------------------------------------------------- re-enrollment
\* C37: when add_ids enrolls an id that is already in the table, the frame
\* of that id keeps its last_sent, last_received (but for the arrival
\* being dispatched) and in_flight
C37_ReenrollKeepsFrame ==
    [][\A i \in DOMAIN dm.frames :
          dm'.enr[i] # dm.enr[i] =>
              /\ i \in DOMAIN dm'.frames
              /\ dm'.frames[i].last_transmit = dm.frames[i].last_transmit
              /\ dm'.frames[i].last_arrival \in {dm.frames[i].last_arrival, now}
              /\ dm'.frames[i].in_flight = dm.frames[i].in_flight]_vars


\* --------------------------------------------------------------- reconnect
\* C38: while the daemon is disconnected no frame is under way in the
\* decoder and no received byte is waiting, so the next connection starts
\* with an idle decoder
C38_DisconnectResetsDecoder ==
    ~connected => (current_frame = NoFrame /\ recv_buf = <<>>)


\* --------------------------------------------------------- clear_inventory
\* C39: every call of clear_inventory returns without an error and leaves
\* the table with the description entry alone, the module map of the
\* battery manager empty and its readings unknown
C39_ClearInventory ==
    [][hist'.clears # hist.clears =>
          /\ crash' = crash
          /\ DOMAIN dm'.frames = {DESC}
          /\ dm'.battery_manager.batteries = <<>>
          /\ dm'.battery_manager.readings = NewBatteryManager.readings]_vars


\* ----------------------------------------------------------------- connect
\* C40: a connect attempt that reports success or in-progress leaves the
\* daemon connected, one that reports an error leaves it disconnected; and
\* requests are staged only while connected
C40_ConnectOutcome ==
    [][/\ ConnectStep =>
             /\ hist'.connect \in {"0", "EINPROGRESS"} => connected'
             /\ hist'.connect \in {"ECONNREFUSED", "EOTHER"} => ~connected'
       /\ PayloadsStep => connected]_vars

====
